---- MODULE Spec2Model ----
(***************************************************************************)
(* Snoozeng: the event queue (src/event.rs), the entity garbage collector  *)
(* (src/gameplay/delete.rs), the particle pool of an emitter               *)
(* (src/render/particle.rs) and the physics world (src/core/physics).      *)
(*                                                                         *)
(* Durations are whole time units.  Entities and sound names are small     *)
(* integers.  A staged (deferred) event is the custom event GameEvent(k),  *)
(* k being the rank of the add_deferred_event call that staged it, so that *)
(* every staged event can be told apart in the log.                        *)
(***************************************************************************)
EXTENDS Integers, Sequences, FiniteSets, TLC

\* ------------------------------------------------------------------ bounds
\* events written to the channel over a run
MaxPublished == 3
\* readers registered over a run
MaxReaders == 2
\* add_deferred_event calls over a run
MaxStaged == 2
\* slots of the channel's ring buffer before it grows
ChanCapacity == 2
\* frames an emitter is followed
MaxTicks == 11
\* notifications the physics engine reports in one step
MaxNotifications == 2

\* ----------------------------------------------------------------- values
Entities == {1}
Sounds == {1}

Delete(e) == [kind |-> "Delete", arg |-> e]
PlaySound(s) == [kind |-> "PlaySound", arg |-> s]
GameEvent(ge) == [kind |-> "GameEvent", arg |-> ge]
ProximityEvent(c1, c2) == [kind |-> "ProximityEvent", arg |-> c1, arg2 |-> c2]
ContactEvent(c1, c2) == [kind |-> "ContactEvent", arg |-> c1, arg2 |-> c2]

\* the events the systems publish directly
DirectEvents == {Delete(e) : e \in Entities} \cup {PlaySound(s) : s \in Sounds}

Min(a, b) == IF a < b THEN a ELSE b

SeqMin(s) == CHOOSE m \in {s[i] : i \in DOMAIN s} : \A i \in DOMAIN s : m <= s[i]

Reverse(s) == [i \in DOMAIN s |-> s[Len(s) + 1 - i]]

Range(s) == {s[i] : i \in DOMAIN s}

\* the vectors handed to drain_vec_write: none, one or two events
Batches == UNION {[1..k -> DirectEvents] : k \in 0..2}

\* the durations of the staged timers and the dt of a tick, in time units
Durations == 0..2
Dts == 0..2

\* ------------------------------------------------------------------ Timer
\* crate::core::timer::Timer (tick, finished); a fresh timer has elapsed 0
TimerNew(d) == [elapsed |-> 0, duration |-> d]
TimerTick(t, dt) == [t EXCEPT !.elapsed = @ + dt]
TimerFinished(t) == t.elapsed >= t.duration
TimerReset(t) == [t EXCEPT !.elapsed = 0]

\* ------------------------------------------------------------ EventChannel
\* The channel the queue wraps: a ring buffer of `size` slots, the number of
\* events written so far, and one cursor per registered reader (the number
\* of events that reader has passed).  data holds the entries that
\* are still in the buffer, oldest first, each with its sequence number.
ChanNew == [data |-> <<>>, written |-> 0, size |-> ChanCapacity, readers |-> <<>>]

\* the buffer doubles until it holds `need` entries
RECURSIVE ChanGrow(_, _)
ChanGrow(size, need) == IF size >= need THEN size ELSE ChanGrow(2 * size, need)

\* entries the slowest reader has not passed yet (none without readers)
ChanUnread(c) == IF c.readers = <<>> THEN 0 ELSE c.written - SeqMin(c.readers)

ChanWrite_fixedRing(c, evs) ==
    LET n == Len(evs)
        entries == [i \in 1..n |-> [seq |-> c.written + i, ev |-> evs[i]]]
        all == c.data \o entries
        keep == Min(Len(all), c.size)
    IN  IF n = 0 THEN c
        ELSE [c EXCEPT !.data = SubSeq(all, Len(all) - keep + 1, Len(all)),
                       !.written = @ + n]

\* append evs; the oldest entries are overwritten once the buffer is full,
\* but the buffer grows first when a reader has not passed them
ChanWrite(c, evs) ==
    LET n == Len(evs)
        size2 == IF c.readers = <<>> THEN c.size
                 ELSE ChanGrow(c.size, ChanUnread(c) + n)
        entries == [i \in 1..n |-> [seq |-> c.written + i, ev |-> evs[i]]]
        all == c.data \o entries
        keep == Min(Len(all), size2)
    IN  IF n = 0 THEN c
        ELSE [c EXCEPT !.data = SubSeq(all, Len(all) - keep + 1, Len(all)),
                       !.size = size2,
                       !.written = @ + n]

\* a new reader starts at the head: the id is its rank
ChanRegisterReader(c) == [c EXCEPT !.readers = Append(@, c.written)]

\* what reader r gets from its next read
ChanPending(c, r) == SelectSeq(c.data, LAMBDA e : e.seq > c.readers[r])

\* reading moves the reader's cursor to the head
ChanRead(c, r) == [c EXCEPT !.readers[r] = c.written]

VARIABLES
    chan,             \* EventQueue.chan
    deferred_events,  \* EventQueue.deferred_events: <<[ev, timer]>>
    gc_rdr,           \* GarbageCollector.rdr_id, 0 before GarbageCollector::new
    world,            \* the entities of the hecs world
    ret,              \* the last call, with the reader it served and the events
                      \* it returned (read) or handed to the channel
    published,        \* every event handed to the channel, in order
    seen,             \* per reader: the log entries its reads returned
    regAt,            \* per reader: Len(published) when it registered
    readAt,           \* per reader: Len(published) at its last read
    staged,           \* per staged event k: its duration, the sum of the dt of
                      \* the update_deferred calls since, whether there was one
    particles,        \* ParticleEmitter.particles: the pool [particles, free, init]
    enabled,          \* ParticleEmitter.enabled
    burst,            \* ParticleEmitter.burst
    particle_number,  \* ParticleEmitter.particle_number, in tenths of a particle
    nb_accumulator,   \* ParticleEmitter.nb_accumulator, in tenths of a particle
    particle_life,    \* ParticleEmitter.particle_life, in frames
    still_alive,      \* what the last ParticleEmitter::update returned
    popped,           \* the slots get_available handed out in the last update
    claimed,          \* the slots handed out and not pushed back to free since
    requested,        \* the spawn requests of the last update (0: not an update)
    died,             \* the slots whose life reached 0 in the last update
    ticks,            \* ParticleSystem::update calls so far
    total,            \* particles spawned by them
    first_slot        \* the slot of the first particle spawned, 0 before

busVars == <<chan, deferred_events, gc_rdr, world, ret, published, seen, regAt,
             readAt, staged>>

emitterVars == <<particles, enabled, burst, particle_number, nb_accumulator,
                 particle_life, still_alive, popped, claimed, requested, died>>

tickVars == <<ticks, total, first_slot>>

VARIABLES
    bodies,           \* CollisionWorld.bodies: handle -> rigid body
    colliders,        \* CollisionWorld.colliders: handle -> collider
    rbc,              \* the RigidBodyComponent of each entity that has one
    arena,            \* the handles given out so far, of bodies and of colliders
    transform,        \* the Transform of each entity that has one
    phys_ret          \* the last physics call: operation, component, entity,
                      \* handle (given or returned), whether it was cached

physVars == <<bodies, colliders, rbc, arena, transform, phys_ret>>

VARIABLES
    stepping,         \* CollisionWorld::step is between its entry and its return
    step_events,      \* the vector the event handler of the step pushes to
    reported,         \* the notifications of the current, else the last, step
    batch             \* the events the last step wrote, none during a step

stepVars == <<stepping, step_events, reported, batch>>

VARIABLES
    controllers,      \* the AnimationController of each entity that has one
    renders           \* the material of the MeshRender of each such entity

animVars == <<controllers, renders>>

VARIABLES
    curve,            \* a Curve: [xs, ys]
    curve_ret,        \* the last call of Curve::y, if there was one: its t and
                      \* what it returned
    generations       \* the entity store: per index, the generation of the
                      \* last entity that was given that index

curveVars == <<curve, curve_ret>>

storeVars == <<generations>>

vars == <<busVars, emitterVars, tickVars, physVars, stepVars, animVars, curveVars,
          storeVars>>

Returned(op, rdr, events) == [op |-> op, rdr |-> rdr, events |-> events]

\* ------------------------------------------------------------- EventQueue
EventQueueNew_ownReader == ChanRegisterReader(ChanNew)

EventQueueNew == ChanNew

drain_vec_write_reversed(events) ==
    /\ chan' = ChanWrite(chan, Reverse(events))
    /\ ret' = Returned("drain_vec_write", 0, <<>>)
    /\ UNCHANGED deferred_events

drain_vec_write(events) ==
    /\ chan' = ChanWrite(chan, events)
    /\ ret' = Returned("drain_vec_write", 0, <<>>)
    /\ UNCHANGED deferred_events

single_write_cancels(event) ==
    /\ chan' = ChanWrite(chan, <<event>>)
    /\ ret' = Returned("single_write", 0, <<>>)
    /\ deferred_events' = <<>>

single_write(event) ==
    /\ chan' = ChanWrite(chan, <<event>>)
    /\ ret' = Returned("single_write", 0, <<>>)
    /\ UNCHANGED deferred_events

read_shared(reader_id) ==
    /\ ret' = Returned("read", reader_id, ChanPending(chan, 1))
    /\ chan' = ChanRead(chan, 1)
    /\ UNCHANGED deferred_events

read(reader_id) ==
    /\ ret' = Returned("read", reader_id, ChanPending(chan, reader_id))
    /\ chan' = ChanRead(chan, reader_id)
    /\ UNCHANGED deferred_events

register_reader ==
    /\ chan' = ChanRegisterReader(chan)
    /\ ret' = Returned("register_reader", Len(chan.readers) + 1, <<>>)
    /\ UNCHANGED deferred_events

add_deferred_event(event, timer) ==
    /\ deferred_events' = Append(deferred_events, [ev |-> event, timer |-> timer])
    /\ ret' = Returned("add_deferred_event", 0, <<>>)
    /\ UNCHANGED chan

\* events.iter_mut().for_each(|ev| ev.1.tick(dt))
Ticked(events, dt) ==
    [i \in DOMAIN events |-> [events[i] EXCEPT !.timer = TimerTick(@, dt)]]

\* the two halves of events.drain(..).partition(|(ev, timer)| timer.finished())
ToSend_reversed(events) == Reverse(SelectSeq(events, LAMBDA e : TimerFinished(e.timer)))

ToSend(events) == SelectSeq(events, LAMBDA e : TimerFinished(e.timer))

NotYet_keepsAll(events) == events

NotYet(events) == SelectSeq(events, LAMBDA e : ~TimerFinished(e.timer))

\* to_send.drain(..).map(|(ev, _)| ev).collect()
EventsOf(entries) == [i \in DOMAIN entries |-> entries[i].ev]

update_deferred_lateTick(dt) ==
    LET to_send == EventsOf(ToSend(deferred_events))
    IN  /\ deferred_events' = Ticked(NotYet(deferred_events), dt)
        /\ chan' = ChanWrite(chan, to_send)
        /\ ret' = Returned("update_deferred", 0, to_send)

update_deferred_keepsSent(dt) ==
    LET events == Ticked(deferred_events, dt)
        to_send == EventsOf(ToSend(events))
    IN  /\ deferred_events' = events
        /\ chan' = ChanWrite(chan, to_send)
        /\ ret' = Returned("update_deferred", 0, to_send)

update_deferred_pastReaders(dt) ==
    LET events == Ticked(deferred_events, dt)
        to_send == EventsOf(ToSend(events))
        written == ChanWrite(chan, to_send)
    IN  /\ deferred_events' = NotYet(events)
        /\ chan' = [written EXCEPT !.readers = [r \in DOMAIN @ |-> written.written]]
        /\ ret' = Returned("update_deferred", 0, to_send)

update_deferred(dt) ==
    LET events == Ticked(deferred_events, dt)
        to_send == EventsOf(ToSend(events))
    IN  /\ deferred_events' = NotYet(events)
        /\ chan' = ChanWrite(chan, to_send)
        /\ ret' = Returned("update_deferred", 0, to_send)

\* ------------------------------------------------------- GarbageCollector
\* the entities named by the Delete events of a read
Deleted(entries) == {entries[i].ev.arg : i \in {j \in DOMAIN entries : entries[j].ev.kind = "Delete"}}

\* GarbageCollector::new registers the collector's private reader
GarbageCollectorNew ==
    /\ register_reader
    /\ gc_rdr' = ret'.rdr
    /\ UNCHANGED world

\* An entity of the store is an index and a generation; where the
\* generation plays no part an entity is written as a plain number.
Entity(index, generation) == [index |-> index, generation |-> generation]

\* world.spawn when the store gives the new entity the index `index`: a
\* fresh index starts at generation 0, an index given before gets the
\* generation after the one of its last entity
spawn(w, gens, index) ==
    LET g == IF index \in DOMAIN gens THEN gens[index] + 1 ELSE 0
    IN  [world |-> w \cup {Entity(index, g)},
         generations |-> [i \in DOMAIN gens \cup {index} |->
                             IF i = index THEN g ELSE gens[i]],
         entity |-> Entity(index, g)]

\* world.despawn(e): the store without e, and Err(NoSuchEntity) when e was
\* not in it (an entity of the same index and of another generation is
\* not e)
despawn_byIndex(w, e) ==
    [world |-> {x \in w : x.index # e.index}, ok |-> e \in w]

despawn_keeps(w, e) == [world |-> w, ok |-> e \in w]

despawn(w, e) == [world |-> w \ {e}, ok |-> e \in w]

\* the loop of collect over the entries of its read: a Delete despawns its
\* entity, a failed despawn is logged, any other event is passed over
RECURSIVE CollectLoop_stopsOnError(_, _)
CollectLoop_stopsOnError(w, entries) ==
    IF entries = <<>> THEN w
    ELSE LET ev == Head(entries).ev
         IN  IF ev.kind = "Delete"
             THEN IF despawn(w, ev.arg).ok
                  THEN CollectLoop_stopsOnError(despawn(w, ev.arg).world, Tail(entries))
                  ELSE w
             ELSE CollectLoop_stopsOnError(w, Tail(entries))

RECURSIVE CollectLoop(_, _)
CollectLoop(w, entries) ==
    IF entries = <<>> THEN w
    ELSE LET ev == Head(entries).ev
         IN  IF ev.kind = "Delete"
             THEN CollectLoop(despawn(w, ev.arg).world, Tail(entries))
             ELSE CollectLoop(w, Tail(entries))

collect_removesBodies ==
    /\ read(gc_rdr)
    /\ world' = CollectLoop(world, ret'.events)
    /\ bodies' = [b \in {h \in DOMAIN bodies : bodies[h].user_data \notin world \ world'}
                    |-> bodies[b]]
    /\ colliders' = [c \in {k \in DOMAIN colliders : colliders[k].parent \in DOMAIN bodies'}
                       |-> colliders[c]]
    /\ UNCHANGED gc_rdr

\* collect reads the collector's reader and despawns every deleted entity;
\* the body of a despawned entity is not taken out of the simulation (the
\* removal is a TODO of the loop)
collect ==
    /\ read(gc_rdr)
    /\ world' = CollectLoop(world, ret'.events)
    /\ UNCHANGED <<gc_rdr, bodies, colliders>>

\* ------------------------------------------------------------------ Curve
\* Numbers are exact: a value is the fraction num/den, and den = 0 stands
\* for what a division by zero leaves in an f32 (an infinity or a NaN).
Value(num, den) == [num |-> num, den |-> den]

NoValue == Value(0, 0)

\* Curve::default()
CurveDefault == [xs |-> <<>>, ys |-> <<>>]

\* the loop of y over xs from index i on (indices from 1): idx is the last
\* index passed before the first x greater than t
RECURSIVE LowerBound(_, _, _, _)
LowerBound(xs, t, i, idx) ==
    IF i > Len(xs) THEN idx
    ELSE IF xs[i] > t THEN idx
    ELSE LowerBound(xs, t, i + 1, i)

\* what Curve::y returns when it does not interpolate
Curve_y_stepwise(c, t) ==
    LET idx == LowerBound(c.xs, t, 1, 1)
    IN  Value(c.ys[idx], 1)

\* Curve::y, for a curve that passes its assertion
Curve_y(c, t) ==
    LET idx == LowerBound(c.xs, t, 1, 1)
        lower_y == c.ys[idx]
    IN  IF idx = Len(c.ys) THEN Value(lower_y, 1)
        ELSE LET lower_t == c.xs[idx]
                 higher_t == c.xs[idx + 1]
                 higher_y == c.ys[idx + 1]
             IN  \* slope = (higher_y - lower_y) / (higher_t - lower_t)
                 \* val = lower_y + slope * (t - lower_t)
                 Value(lower_y * (higher_t - lower_t)
                          + (higher_y - lower_y) * (t - lower_t),
                       higher_t - lower_t)

\* ----------------------------------------------------------- ParticlePool
\* Slots are numbered from 1 (slot i is particles[i - 1] of the code).  Of a
\* particle only life and initial_life are kept: position, velocity, scale,
\* rotation and colours decide nothing below.

\* particle_number and nb_accumulator count tenths of a particle
Whole(n) == 10 * n
Floor(x) == x \div 10
Ceil(x) == (x + 9) \div 10

\* Particle::default()
ParticleDefault == [life |-> 0, initial_life |-> 0]

\* Particle::respawn
respawn(p, life) == [p EXCEPT !.life = life, !.initial_life = life]

\* Particle::alive
alive(p) == p.life > 0

\* Particle::t, the normalised age, as the fraction num/den
Particle_t(p) == Value(p.initial_life - p.life, p.initial_life)

\* Particle::update (a life below 0 stands for the underflow of the u32)
ParticleUpdate_noAging(p) == p

ParticleUpdate(p) == [p EXCEPT !.life = @ - 1]

\* ParticlePool::default()
ParticlePoolDefault == [particles |-> <<>>, free |-> <<>>, init |-> FALSE]

\* ParticlePool::of_size
of_size(nb) ==
    [particles |-> [i \in 1..nb |-> ParticleDefault],
     free |-> [i \in 1..nb |-> i],
     init |-> TRUE]

\* ParticlePool::get_available: the pool after the pop and the slot handed
\* out, 0 for None
get_available_grows(pool) ==
    IF pool.free = <<>>
    THEN [pool |-> [pool EXCEPT !.particles = Append(@, ParticleDefault)],
          idx |-> Len(pool.particles) + 1]
    ELSE [pool |-> [pool EXCEPT !.free = SubSeq(@, 1, Len(@) - 1)],
          idx |-> pool.free[Len(pool.free)]]

get_available_recycles(pool) ==
    IF pool.free = <<>>
    THEN [pool |-> pool, idx |-> IF pool.particles = <<>> THEN 0 ELSE 1]
    ELSE [pool |-> [pool EXCEPT !.free = SubSeq(@, 1, Len(@) - 1)],
          idx |-> pool.free[Len(pool.free)]]

get_available(pool) ==
    IF pool.free = <<>> THEN [pool |-> pool, idx |-> 0]
    ELSE [pool |-> [pool EXCEPT !.free = SubSeq(@, 1, Len(@) - 1)],
          idx |-> pool.free[Len(pool.free)]]

\* ParticlePool::all_dead
all_dead_byLife(pool) ==
    \A i \in DOMAIN pool.particles : pool.particles[i].life = 0

all_dead(pool) == Len(pool.particles) = Len(pool.free)

\* ParticleEmitter::init_pool
InitPoolSize_burstOne(rate, life, isBurst) ==
    IF isBurst THEN 1 ELSE Ceil(rate) * (life + 1)

InitPoolSize_noSpare(rate, life, isBurst) ==
    Ceil(rate) * (IF isBurst THEN 1 ELSE life)

InitPoolSize(rate, life, isBurst) ==
    Ceil(rate) * (IF isBurst THEN 1 ELSE life + 1)

\* the spawn loop of ParticleEmitter::update: n requests against the pool
RECURSIVE SpawnLoop(_, _, _, _)
SpawnLoop(pool, handed, n, life) ==
    IF n = 0 THEN [pool |-> pool, popped |-> handed]
    ELSE LET g == get_available(pool)
         IN  IF g.idx = 0 THEN SpawnLoop(pool, handed, n - 1, life)
             ELSE SpawnLoop([g.pool EXCEPT !.particles[g.idx] = respawn(@, life)],
                            Append(handed, g.idx), n - 1, life)

\* one step of the scan of ParticleEmitter::update, at slot idx
ScanSlot_noGuard(pool, idx) ==
    IF alive(pool.particles[idx])
    THEN [pool EXCEPT !.particles[idx] = ParticleUpdate(@)]
    ELSE [pool EXCEPT !.free = Append(@, idx)]

ScanSlot_agesAll(pool, idx) ==
    IF alive(pool.particles[idx])
    THEN [pool EXCEPT !.particles[idx] = ParticleUpdate(@)]
    ELSE IF idx \in Range(pool.free)
         THEN [pool EXCEPT !.particles[idx] = ParticleUpdate(@)]
         ELSE [pool EXCEPT !.particles[idx] = ParticleUpdate(@), !.free = Append(@, idx)]

ScanSlot_neverFrees(pool, idx) ==
    IF alive(pool.particles[idx])
    THEN [pool EXCEPT !.particles[idx] = ParticleUpdate(@)]
    ELSE pool

ScanSlot(pool, idx) ==
    IF alive(pool.particles[idx])
    THEN [pool EXCEPT !.particles[idx] = ParticleUpdate(@)]
    ELSE IF idx \in Range(pool.free) THEN pool
         ELSE [pool EXCEPT !.free = Append(@, idx)]

\* the scan over the slots idx..Len(particles), in order
RECURSIVE Scan(_, _)
Scan(pool, idx) ==
    IF idx > Len(pool.particles) THEN pool ELSE Scan(ScanSlot(pool, idx), idx + 1)

\* the pool update works on: sized on the first call
SizedPool ==
    IF particles.init THEN particles
    ELSE of_size(InitPoolSize(particle_number, particle_life, burst))

\* self.nb_accumulator -= self.nb_accumulator.floor()
Carry_banks(acc) == acc

Carry_reset(acc) == 0

Carry(acc) == acc - Whole(Floor(acc))

\* if self.burst { self.disable() }
AfterBurst_stays(isBurst, isEnabled) == isEnabled

AfterBurst(isBurst, isEnabled) == IF isBurst THEN FALSE ELSE isEnabled

\* ParticleEmitter::update
update ==
    LET sized == SizedPool
        acc == nb_accumulator + particle_number
        entire_nb == Floor(acc)
        spawned == IF entire_nb > 0 /\ enabled
                   THEN SpawnLoop(sized, <<>>, entire_nb, particle_life)
                   ELSE [pool |-> sized, popped |-> <<>>]
        scanned == Scan(spawned.pool, 1)
    IN  /\ particles' = scanned
        /\ nb_accumulator' = IF entire_nb > 0 THEN Carry(acc) ELSE acc
        /\ enabled' = AfterBurst(burst, enabled)
        /\ still_alive' = ~(burst /\ all_dead(scanned))
        /\ popped' = spawned.popped
        /\ claimed' = (claimed \cup Range(spawned.popped))
                        \ {i \in DOMAIN spawned.pool.particles :
                              ~alive(spawned.pool.particles[i])}
        /\ requested' = IF enabled THEN entire_nb ELSE 0
        /\ died' = {i \in DOMAIN spawned.pool.particles :
                       spawned.pool.particles[i].life = 1}
        /\ UNCHANGED <<burst, particle_number, particle_life>>

\* ParticleEmitter::init_pool, called by load_from_path
init_pool ==
    /\ particles' = of_size(InitPoolSize(particle_number, particle_life, burst))
    /\ claimed' = {}
    /\ popped' = <<>>
    /\ requested' = 0
    /\ died' = {}
    /\ UNCHANGED <<enabled, burst, particle_number, nb_accumulator, particle_life,
                   still_alive>>

\* ParticleEmitter::enable
enable ==
    /\ enabled' = TRUE
    /\ popped' = <<>>
    /\ requested' = 0
    /\ UNCHANGED <<particles, burst, particle_number, nb_accumulator, particle_life,
                   still_alive, claimed, died>>

\* ParticleEmitter::disable
disable ==
    /\ enabled' = FALSE
    /\ popped' = <<>>
    /\ requested' = 0
    /\ UNCHANGED <<particles, burst, particle_number, nb_accumulator, particle_life,
                   still_alive, claimed, died>>

\* ParticleSystem::update, for the one entity e that has an emitter: a Delete
\* is written when the emitter's update returns false (the closing
\* drain_vec_write of the empty remove_events writes nothing)
ParticleSystemUpdate_anyEntity(e) ==
    /\ update
    /\ IF still_alive' THEN drain_vec_write(<<>>) ELSE single_write(Delete(e))

ParticleSystemUpdate(e) ==
    /\ e \in world
    /\ update
    /\ IF still_alive' THEN drain_vec_write(<<>>) ELSE single_write(Delete(e))

\* ParticleSystem::update when the query finds no emitter: no emitter is
\* updated and the closing drain_vec_write writes nothing
ParticleSystemUpdateNone ==
    /\ drain_vec_write(<<>>)
    /\ UNCHANGED emitterVars

\* the emission rates (tenths of a particle per frame) and the lifetimes
Rates == {0, 3, 10, 15, 20}
Lives == 0..2

\* the lifetimes of the emitters that are followed tick by tick
TickLives == {0, 1, 2, 10}

\* the entity that owns the emitter
EmitterEntity == CHOOSE e \in Entities : TRUE

\* -------------------------------------------------------- CollisionWorld
\* the entities that have a RigidBodyComponent
PhysEntities == {1, 2}

\* translations (x, y)
Positions == {<<0, 0>>, <<1, 2>>}

\* linear velocities and impulses (x, y)
Velocities == {<<0, 0>>, <<1, 0>>}

BodyStatuses == {"Static", "Kinematic", "Dynamic"}

\* RigidBodyComponent::new_static_cuboid, new_kinematic_cuboid and
\* new_dynamic_cuboid: should_sync, not a sensor, no handle (0 is None).  The
\* shape of the collider, the damping and the interaction group are left out.
new_cuboid(status) ==
    [status |-> status, should_sync |-> TRUE, sensor |-> FALSE, handle |-> 0]

\* Transform: of scale and rotation only that they are there; the dirty flag
\* is left out
TransformAt(translation) ==
    [translation |-> translation, scale |-> <<1, 1>>, rotation |-> 0]

\* the handle an insertion yields after n insertions: a handle is never
\* given out twice, also when its body or collider has been removed
NewHandle(n) == n + 1

\* the physics state as a record, and a call that leaves it as it is
PhysNow(handle) ==
    [bodies |-> bodies, colliders |-> colliders, rbc |-> rbc, arena |-> arena,
     handle |-> handle]

\* the else branch of add_body: a body built from the component at the
\* translation, at rest and with no user data, one collider attached to it,
\* the handle cached on the component of entity e
insert_body(translation, e) ==
    LET c == rbc[e]
        handle == NewHandle(arena.bodies)
    IN  [bodies |-> bodies @@ (handle :> [status |-> c.status, pos |-> translation,
                                          linvel |-> <<0, 0>>, user_data |-> 0]),
         colliders |-> colliders @@ (NewHandle(arena.colliders) :>
                                        [parent |-> handle, sensor |-> c.sensor]),
         rbc |-> [rbc EXCEPT ![e].handle = handle],
         arena |-> [bodies |-> arena.bodies + 1, colliders |-> arena.colliders + 1],
         handle |-> handle]

\* CollisionWorld::add_body on the component of entity e: the physics state
\* it leaves and the handle it returns
add_body_result(translation, e) ==
    IF rbc[e].handle # 0 THEN PhysNow(rbc[e].handle)
    ELSE insert_body(translation, e)

PhysBecomes(r) ==
    /\ bodies' = r.bodies
    /\ colliders' = r.colliders
    /\ rbc' = r.rbc
    /\ arena' = r.arena

PhysReturned(op, c, e, handle, cached) ==
    [op |-> op, c |-> c, e |-> e, handle |-> handle, cached |-> cached]

\* CollisionWorld::add_body on the component of entity e
add_body_always(translation, e) ==
    LET r == insert_body(translation, e)
    IN  /\ PhysBecomes(r)
        /\ phys_ret' = PhysReturned("add_body", e, 0, r.handle, rbc[e].handle # 0)
        /\ UNCHANGED transform

add_body(translation, e) ==
    LET r == add_body_result(translation, e)
    IN  /\ PhysBecomes(r)
        /\ phys_ret' = PhysReturned("add_body", e, 0, r.handle, rbc[e].handle # 0)
        /\ UNCHANGED transform

\* CollisionWorld::add_body_with_entity on the component of entity c, for
\* entity e (to_bits of an entity is the entity's number)
add_body_with_entity_newOnly(translation, c, e) ==
    LET r == add_body_result(translation, c)
        h == r.handle
    IN  /\ PhysBecomes([r EXCEPT !.bodies =
                           IF h \in DOMAIN r.bodies /\ rbc[c].handle = 0
                           THEN [r.bodies EXCEPT ![h].user_data = e]
                           ELSE r.bodies])
        /\ phys_ret' = PhysReturned("add_body_with_entity", c, e, h, rbc[c].handle # 0)
        /\ UNCHANGED transform

add_body_with_entity(translation, c, e) ==
    LET r == add_body_result(translation, c)
        h == r.handle
    IN  /\ PhysBecomes([r EXCEPT !.bodies =
                           IF h \in DOMAIN r.bodies
                           THEN [r.bodies EXCEPT ![h].user_data = e]
                           ELSE r.bodies])
        /\ phys_ret' = PhysReturned("add_body_with_entity", c, e, h, rbc[c].handle # 0)
        /\ UNCHANGED transform

\* SerializedEntity::spawn_at_pos for an entity that gets the number e and
\* whose file has the Transform t and, unless c is NoComponent, the
\* RigidBodyComponent c: spawn builds the entity from the components of
\* the file and registers its body at the translation of t, and then the
\* translation of the entity's transform is set to pos
NoComponent == [status |-> "none", should_sync |-> FALSE, sensor |-> FALSE, handle |-> 0]

spawn_at_pos(e, t, c, pos) ==
    LET built == IF c = NoComponent THEN rbc ELSE rbc @@ (e :> c)
        handle == NewHandle(arena.bodies)
    IN  /\ world' = world \cup {e}
        /\ transform' = transform @@ (e :> [t EXCEPT !.translation = pos])
        /\ IF c = NoComponent \/ c.handle # 0
           THEN /\ rbc' = built
                /\ bodies' = IF c.handle \in DOMAIN bodies
                             THEN [bodies EXCEPT ![c.handle].user_data = e]
                             ELSE bodies
                /\ UNCHANGED <<colliders, arena>>
           ELSE /\ bodies' = bodies @@ (handle :> [status |-> c.status,
                                                   pos |-> t.translation,
                                                   linvel |-> <<0, 0>>,
                                                   user_data |-> e])
                /\ colliders' = colliders @@ (NewHandle(arena.colliders) :>
                                                 [parent |-> handle, sensor |-> c.sensor])
                /\ rbc' = [built EXCEPT ![e].handle = handle]
                /\ arena' = [bodies |-> arena.bodies + 1,
                             colliders |-> arena.colliders + 1]
        /\ phys_ret' = PhysReturned("spawn_at_pos", e, e,
                                    IF c = NoComponent THEN 0 ELSE rbc'[e].handle, FALSE)

\* a function without the keys of gone
Without(f, gone) == [k \in DOMAIN f \ gone |-> f[k]]

\* game code removes body h through rigid_bodies_mut(): the set drops the
\* body and the colliders attached to it; no component hears of it
remove_body(h) ==
    /\ bodies' = Without(bodies, {h})
    /\ colliders' = Without(colliders, {k \in DOMAIN colliders : colliders[k].parent = h})
    /\ phys_ret' = PhysReturned("remove", 0, 0, h, FALSE)
    /\ UNCHANGED <<rbc, arena, transform>>

\* the entities the query of synchronize visits: those of the world with a
\* Transform and a RigidBodyComponent
SyncQuery == world \cap DOMAIN transform \cap DOMAIN rbc

\* what synchronize copies to the transform of entity e: the position of
\* its body, when the component is to be synchronized and its handle resolves
Synced_ignoresFlag(e) ==
    IF rbc[e].handle # 0 /\ rbc[e].handle \in DOMAIN bodies
    THEN [transform[e] EXCEPT !.translation = bodies[rbc[e].handle].pos]
    ELSE transform[e]

Synced(e) ==
    IF ~rbc[e].should_sync THEN transform[e]
    ELSE IF rbc[e].handle # 0 /\ rbc[e].handle \in DOMAIN bodies
         THEN [transform[e] EXCEPT !.translation = bodies[rbc[e].handle].pos]
         ELSE transform[e]

\* CollisionWorld::synchronize
synchronize ==
    /\ transform' = [e \in DOMAIN transform |->
                        IF e \in SyncQuery THEN Synced(e) ELSE transform[e]]
    /\ phys_ret' = PhysReturned("synchronize", 0, 0, 0, FALSE)
    /\ UNCHANGED <<bodies, colliders, rbc, arena>>

\* RigidBody::apply_impulse, of a body of mass 1: only a dynamic body takes it
Impulsed(rb, impulse) ==
    IF rb.status = "Dynamic"
    THEN [rb EXCEPT !.linvel = <<@[1] + impulse[1], @[2] + impulse[2]>>]
    ELSE rb

\* CollisionWorld::apply_impulse: on the body bodies.get_mut(h) yields, if any
apply_impulse(h, impulse) ==
    /\ bodies' = IF h \in DOMAIN bodies
                 THEN [bodies EXCEPT ![h] = Impulsed(@, impulse)]
                 ELSE bodies
    /\ phys_ret' = PhysReturned("apply_impulse", 0, 0, h, FALSE)
    /\ UNCHANGED <<colliders, rbc, arena, transform>>

\* CollisionWorld::set_velocity
set_velocity_all(h, velocity) ==
    /\ bodies' = [b \in DOMAIN bodies |-> [bodies[b] EXCEPT !.linvel = velocity]]
    /\ phys_ret' = PhysReturned("set_velocity", 0, 0, h, FALSE)
    /\ UNCHANGED <<colliders, rbc, arena, transform>>

set_velocity(h, velocity) ==
    /\ bodies' = IF h \in DOMAIN bodies
                 THEN [bodies EXCEPT ![h].linvel = velocity]
                 ELSE bodies
    /\ phys_ret' = PhysReturned("set_velocity", 0, 0, h, FALSE)
    /\ UNCHANGED <<colliders, rbc, arena, transform>>

\* CollisionWorld::set_position
set_position(h, position) ==
    /\ bodies' = IF h \in DOMAIN bodies
                 THEN [bodies EXCEPT ![h].pos = position]
                 ELSE bodies
    /\ phys_ret' = PhysReturned("set_position", 0, 0, h, FALSE)
    /\ UNCHANGED <<colliders, rbc, arena, transform>>

\* what the engine reports to the event handler: a proximity event with
\* the new status of the pair, or a contact event
ProximityNote(c1, c2, status) ==
    [type |-> "proximity", collider1 |-> c1, collider2 |-> c2, new_status |-> status]

ContactNote(c1, c2) ==
    [type |-> "contact", collider1 |-> c1, collider2 |-> c2, new_status |-> "none"]

\* the notifications about the colliders of the simulation
ColliderPairs == {p \in (DOMAIN colliders) \X (DOMAIN colliders) : p[1] # p[2]}

Notifications ==
    {ProximityNote(p[1], p[2], st) :
        p \in ColliderPairs, st \in {"Intersecting", "Disjoint"}}
    \cup {ContactNote(p[1], p[2]) : p \in ColliderPairs}

\* VecEventHandler::handle_proximity_event: the vector after the callback
handle_proximity_event_prepends(events, event) ==
    IF event.new_status = "Intersecting"
    THEN <<ProximityEvent(event.collider1, event.collider2)>> \o events
    ELSE events

handle_proximity_event(events, event) ==
    IF event.new_status = "Intersecting"
    THEN Append(events, ProximityEvent(event.collider1, event.collider2))
    ELSE events

\* VecEventHandler::handle_contact_event: it prints, the push is commented out
handle_contact_event(events, event) == events

\* the bodies as a pipeline step may leave them: a static body where it
\* was, any other body at some position with some velocity
Movable == {b \in DOMAIN bodies : bodies[b].status # "Static"}

Stepped ==
    {[b \in DOMAIN bodies |->
         IF b \in Movable
         THEN [bodies[b] EXCEPT !.pos = m[b][1], !.linvel = m[b][2]]
         ELSE bodies[b]] : m \in [Movable -> Positions \X Velocities]}

\* the loop of step over the collected events: one single_write each
RECURSIVE WriteEach(_, _)
WriteEach(c, events) ==
    IF events = <<>> THEN c
    ELSE WriteEach(ChanWrite(c, <<Head(events)>>), Tail(events))

\* CollisionWorld::step enters pipeline.step with an empty vector of events
step_enter ==
    /\ ~stepping
    /\ stepping' = TRUE
    /\ step_events' = <<>>
    /\ UNCHANGED <<chan, deferred_events, physVars>>

\* the engine calls the event handler during pipeline.step
step_notify(event) ==
    /\ stepping
    /\ step_events' = IF event.type = "proximity"
                      THEN handle_proximity_event(step_events, event)
                      ELSE handle_contact_event(step_events, event)
    /\ UNCHANGED <<stepping, chan, deferred_events, physVars>>

\* pipeline.step returns, the bodies advanced, and step writes the events
step_return(moved) ==
    /\ stepping
    /\ stepping' = FALSE
    /\ bodies' = moved
    /\ chan' = WriteEach(chan, step_events)
    /\ ret' = Returned("step", 0, step_events)
    /\ phys_ret' = PhysReturned("step", 0, 0, 0, FALSE)
    /\ UNCHANGED <<step_events, deferred_events, colliders, rbc, arena, transform>>

\* ------------------------------------------------------- AnimationSystem
\* the entities that have an AnimationController and a MeshRender
AnimEntities == {1, 2}

\* current_animation = None
NoAnimation == "<none>"

\* Animation::new: keyframes are <<sprite_nb, frames>>; current_index
\* counts from 0 as in the code
AnimationNew(keyframes, frame_duration) ==
    [keyframes |-> keyframes, current_index |-> 0, elapsed_frame |-> 0,
     frame_duration |-> frame_duration]

\* Animation::last_frame
last_frame(a) == Len(a.keyframes) = a.current_index + 1

\* the animation every controller below has: sprite 5 for a frame, then
\* sprite 7 for two; one animation frame lasts two time units
Run == AnimationNew(<<<<5, 0>>, <<7, 1>>>>, TimerNew(2))

Controller(name, delete_on_finished) ==
    [animations |-> [n \in {"run"} |-> Run], current_animation |-> name,
     delete_on_finished |-> delete_on_finished]

Sprite(sprite_nb) == [sprite |-> TRUE, sprite_nb |-> sprite_nb]
Shader == [sprite |-> FALSE, sprite_nb |-> 0]

\* the body of the loop of animate for an animation that was found: the
\* animation after it, the sprite number it shows and whether a Delete of
\* the entity is pushed
Animated(a, dt, delete_on_finished) ==
    LET keyframe == a.keyframes[a.current_index + 1]
        ticked == TimerTick(a.frame_duration, dt)
        frame == TimerFinished(ticked)
        elapsed == IF frame THEN a.elapsed_frame + 1 ELSE a.elapsed_frame
        over == elapsed > keyframe[2]
    IN  [animation |->
             [a EXCEPT !.frame_duration = IF frame THEN TimerReset(ticked) ELSE ticked,
                       !.elapsed_frame = IF over THEN 0 ELSE elapsed,
                       !.current_index = IF over THEN (@ + 1) % Len(a.keyframes) ELSE @],
         sprite_nb |-> keyframe[1],
         delete |-> over /\ last_frame(a) /\ delete_on_finished]

\* whether the loop of animate has an animation to play for entity e
Playing(e) ==
    /\ renders[e].sprite
    /\ controllers[e].current_animation # NoAnimation
    /\ controllers[e].current_animation \in DOMAIN controllers[e].animations

\* whether it logs an error for e: the animation named is not in the map
Missing(e) ==
    /\ renders[e].sprite
    /\ controllers[e].current_animation # NoAnimation
    /\ controllers[e].current_animation \notin DOMAIN controllers[e].animations

\* the loop of animate over the entities of the query, in the order of
\* their numbers, from the state st = [controllers, renders, events]
RECURSIVE AnimateLoop_stopsOnMissing(_, _, _)
AnimateLoop_stopsOnMissing(st, todo, dt) ==
    IF todo = {} THEN st
    ELSE LET e == CHOOSE x \in todo : \A y \in todo : x <= y
             c == st.controllers[e]
             r == Animated(c.animations[c.current_animation], dt, c.delete_on_finished)
         IN  IF Missing(e) THEN st
             ELSE IF ~Playing(e) THEN AnimateLoop_stopsOnMissing(st, todo \ {e}, dt)
             ELSE AnimateLoop_stopsOnMissing(
                      [controllers |-> [st.controllers EXCEPT
                                           ![e].animations[c.current_animation] = r.animation],
                       renders |-> [st.renders EXCEPT ![e].sprite_nb = r.sprite_nb],
                       events |-> IF r.delete THEN Append(st.events, Delete(e))
                                  ELSE st.events],
                      todo \ {e}, dt)

RECURSIVE AnimateLoop(_, _, _)
AnimateLoop(st, todo, dt) ==
    IF todo = {} THEN st
    ELSE LET e == CHOOSE x \in todo : \A y \in todo : x <= y
             c == st.controllers[e]
             r == Animated(c.animations[c.current_animation], dt, c.delete_on_finished)
         IN  IF ~Playing(e) THEN AnimateLoop(st, todo \ {e}, dt)
             ELSE AnimateLoop(
                      [controllers |-> [st.controllers EXCEPT
                                           ![e].animations[c.current_animation] = r.animation],
                       renders |-> [st.renders EXCEPT ![e].sprite_nb = r.sprite_nb],
                       events |-> IF r.delete THEN Append(st.events, Delete(e))
                                  ELSE st.events],
                      todo \ {e}, dt)

\* the entities the query of animate visits
AnimQuery == world \cap DOMAIN controllers \cap DOMAIN renders

\* AnimationSystem::animate
animate_despawns(dt) ==
    LET st == AnimateLoop([controllers |-> controllers, renders |-> renders,
                           events |-> <<>>], AnimQuery, dt)
    IN  /\ controllers' = st.controllers
        /\ renders' = st.renders
        /\ chan' = ChanWrite(chan, st.events)
        /\ ret' = Returned("animate", 0, st.events)
        /\ world' = world \ {st.events[i].arg : i \in DOMAIN st.events}
        /\ UNCHANGED deferred_events

animate(dt) ==
    LET st == AnimateLoop([controllers |-> controllers, renders |-> renders,
                           events |-> <<>>], AnimQuery, dt)
    IN  /\ controllers' = st.controllers
        /\ renders' = st.renders
        /\ chan' = ChanWrite(chan, st.events)
        /\ ret' = Returned("animate", 0, st.events)
        /\ UNCHANGED <<deferred_events, world>>

\* ---------------------------------------------------------------- actions
Readers == DOMAIN regAt

Done(s) == s.ticked /\ s.sum >= s.duration

\* EventQueue::new, no GarbageCollector yet, in a world of entities w
InitBusIn(w) ==
    /\ chan = EventQueueNew
    /\ deferred_events = <<>>
    /\ gc_rdr = 0
    /\ world = w
    /\ ret = Returned("new", 0, <<>>)
    /\ published = <<>>
    /\ seen = <<>>
    /\ regAt = <<>>
    /\ readAt = <<>>
    /\ staged = <<>>

InitBus == InitBusIn(Entities)

\* an emitter as deserialized or built by game code: pool not sized yet
InitEmitterWith(rate, life, isBurst, isEnabled) ==
    /\ particles = ParticlePoolDefault
    /\ enabled = isEnabled
    /\ burst = isBurst
    /\ particle_number = rate
    /\ nb_accumulator = 0
    /\ particle_life = life
    /\ still_alive = TRUE
    /\ popped = <<>>
    /\ claimed = {}
    /\ requested = 0
    /\ died = {}
    /\ ticks = 0
    /\ total = 0
    /\ first_slot = 0

\* no physics step under way, none made
InitNoStep ==
    /\ stepping = FALSE
    /\ step_events = <<>>
    /\ reported = <<>>
    /\ batch = <<>>

\* no entity with an AnimationController
InitNoControllers ==
    /\ controllers = <<>>
    /\ renders = <<>>

\* Curve::default() and no call of y yet
InitNoCurve ==
    /\ curve = CurveDefault
    /\ curve_ret = [called |-> FALSE, t |-> 0, y |-> NoValue]

\* no index of the entity store was given a second time
InitStore == generations = <<>>

\* CollisionWorld::default(): no body, no collider; the components are as
\* their constructors leave them
InitPhysicsWith(statuses) ==
    /\ bodies = <<>>
    /\ colliders = <<>>
    /\ rbc = [e \in PhysEntities |-> new_cuboid(statuses[e])]
    /\ arena = [bodies |-> 0, colliders |-> 0]
    /\ transform = [e \in PhysEntities |-> TransformAt(<<0, 0>>)]
    /\ phys_ret = PhysReturned("new", 0, 0, 0, FALSE)

InitPhysics == InitPhysicsWith([e \in PhysEntities |-> "Dynamic"])

\* ParticleEmitter::default(): enabled, one particle a frame, ten frames
Init ==
    /\ InitBus
    /\ InitEmitterWith(Whole(1), 10, FALSE, TRUE)
    /\ InitPhysics
    /\ InitNoStep
    /\ InitNoCurve
    /\ InitStore
    /\ InitNoControllers

InitEmitter ==
    /\ InitBus
    /\ InitPhysics
    /\ InitNoStep
    /\ InitNoCurve
    /\ InitStore
    /\ InitNoControllers
    /\ \E rate \in Rates, life \in Lives, isBurst \in BOOLEAN, isEnabled \in BOOLEAN :
           InitEmitterWith(rate, life, isBurst, isEnabled)

SingleWrite ==
    \E ev \in DirectEvents :
        /\ Len(published) < MaxPublished
        /\ single_write(ev)
        /\ published' = Append(published, ev)
        /\ UNCHANGED <<emitterVars, tickVars, physVars, stepVars, animVars, curveVars, storeVars, gc_rdr, world, seen, regAt, readAt, staged>>

DrainVecWrite ==
    \E events \in Batches :
        /\ Len(published) + Len(events) <= MaxPublished
        /\ drain_vec_write(events)
        /\ published' = published \o events
        /\ UNCHANGED <<emitterVars, tickVars, physVars, stepVars, animVars, curveVars, storeVars, gc_rdr, world, seen, regAt, readAt, staged>>

Registered(id) ==
    /\ regAt' = regAt @@ (id :> Len(published))
    /\ readAt' = readAt @@ (id :> Len(published))
    /\ seen' = seen @@ (id :> <<>>)

RegisterReader ==
    /\ Cardinality(Readers) < MaxReaders
    /\ register_reader
    /\ Registered(ret'.rdr)
    /\ UNCHANGED <<emitterVars, tickVars, physVars, stepVars, animVars, curveVars, storeVars, gc_rdr, world, published, staged>>

NewGarbageCollector ==
    /\ gc_rdr = 0
    /\ Cardinality(Readers) < MaxReaders
    /\ GarbageCollectorNew
    /\ Registered(ret'.rdr)
    /\ UNCHANGED <<emitterVars, tickVars, physVars, stepVars, animVars, curveVars, storeVars, published, staged>>

HasRead(r) ==
    /\ seen' = [seen EXCEPT ![r] = @ \o ret'.events]
    /\ readAt' = [readAt EXCEPT ![r] = Len(published)]

Read ==
    \E r \in Readers \ {gc_rdr} :
        /\ read(r)
        /\ HasRead(r)
        /\ UNCHANGED <<emitterVars, tickVars, physVars, stepVars, animVars, curveVars, storeVars, gc_rdr, world, published, regAt, staged>>

Collect ==
    /\ gc_rdr # 0
    /\ collect
    /\ HasRead(gc_rdr)
    /\ UNCHANGED <<emitterVars, tickVars, stepVars, animVars, curveVars, storeVars, rbc, arena, transform,
                   phys_ret, published, regAt, staged>>

AddDeferredEvent ==
    \E d \in Durations :
        /\ Len(staged) < MaxStaged
        /\ add_deferred_event(GameEvent(Len(staged) + 1), TimerNew(d))
        /\ staged' = Append(staged, [duration |-> d, sum |-> 0, ticked |-> FALSE])
        /\ UNCHANGED <<emitterVars, tickVars, physVars, stepVars, animVars, curveVars, storeVars, gc_rdr, world, published, seen, regAt, readAt>>

UpdateDeferred ==
    \E dt \in Dts :
        /\ update_deferred(dt)
        /\ published' = published \o ret'.events
        /\ staged' = [k \in DOMAIN staged |->
                        IF Done(staged[k]) THEN staged[k]
                        ELSE [staged[k] EXCEPT !.sum = @ + dt, !.ticked = TRUE]]
        /\ UNCHANGED <<emitterVars, tickVars, physVars, stepVars, animVars, curveVars, storeVars, gc_rdr, world, seen, regAt, readAt>>

Next ==
    \/ SingleWrite
    \/ DrainVecWrite
    \/ RegisterReader
    \/ NewGarbageCollector
    \/ Read
    \/ Collect

\* the event queue with its readers and the garbage collector
Spec == Init /\ [][Next]_vars

\* a run that stages events: one system publishes directly, once, and one
\* reader registers
NoDirect == \A i \in DOMAIN published : published[i] \notin DirectEvents

NextDeferred ==
    \/ AddDeferredEvent
    \/ UpdateDeferred
    \/ (NoDirect /\ SingleWrite)
    \/ (NoDirect /\ DrainVecWrite)
    \/ (Readers = {} /\ RegisterReader)
    \/ Read

\* the event queue with deferred events
SpecDeferred == Init /\ [][NextDeferred]_vars

Update == update /\ UNCHANGED <<busVars, tickVars, physVars, stepVars, animVars, curveVars, storeVars>>

LoadInitPool == ~particles.init /\ init_pool /\ UNCHANGED <<busVars, tickVars, physVars, stepVars, animVars, curveVars, storeVars>>

Enable == enable /\ UNCHANGED <<busVars, tickVars, physVars, stepVars, animVars, curveVars, storeVars>>

Disable == disable /\ UNCHANGED <<busVars, tickVars, physVars, stepVars, animVars, curveVars, storeVars>>

NextEmitter ==
    \/ Update
    \/ LoadInitPool
    \/ Enable
    \/ Disable

\* one particle emitter
SpecEmitter == InitEmitter /\ [][NextEmitter]_vars

InitTicks ==
    /\ InitBus
    /\ InitPhysics
    /\ InitNoStep
    /\ InitNoCurve
    /\ InitStore
    /\ InitNoControllers
    /\ \E rate \in Rates, life \in TickLives, isBurst \in BOOLEAN, isEnabled \in BOOLEAN :
           InitEmitterWith(rate, life, isBurst, isEnabled)

\* one frame of the particle system
Tick ==
    /\ ticks < MaxTicks
    /\ ParticleSystemUpdate(EmitterEntity)
    /\ ticks' = ticks + 1
    /\ total' = total + Len(popped')
    /\ first_slot' = IF first_slot = 0 /\ popped' # <<>> THEN popped'[1] ELSE first_slot
    /\ published' = IF still_alive' THEN published ELSE Append(published, Delete(EmitterEntity))
    /\ UNCHANGED <<physVars, stepVars, animVars, curveVars, storeVars, gc_rdr, world, seen, regAt, readAt, staged>>

NextTicks == Tick

\* one particle emitter left to itself, frame after frame
SpecTicks == InitTicks /\ [][NextTicks]_vars

InitBodies ==
    /\ InitBus
    /\ InitNoStep
    /\ InitNoCurve
    /\ InitStore
    /\ InitNoControllers
    /\ InitEmitterWith(Whole(1), 10, FALSE, TRUE)
    /\ \E statuses \in [PhysEntities -> BodyStatuses] : InitPhysicsWith(statuses)

\* game code registers the component of an entity with the physics world
AddBody ==
    \E e \in PhysEntities, translation \in Positions :
        /\ add_body(translation, e)
        /\ UNCHANGED <<busVars, emitterVars, tickVars, stepVars, animVars, curveVars, storeVars>>

\* SerializedEntity::spawn registers it for its entity; game code may name
\* any entity
AddBodyWithEntity ==
    \E c \in PhysEntities, e \in PhysEntities, translation \in Positions :
        /\ add_body_with_entity(translation, c, e)
        /\ UNCHANGED <<busVars, emitterVars, tickVars, stepVars, animVars, curveVars, storeVars>>

RemoveBody ==
    \E h \in DOMAIN bodies :
        /\ remove_body(h)
        /\ UNCHANGED <<busVars, emitterVars, tickVars, stepVars, animVars, curveVars, storeVars>>

NextBodies == AddBody \/ AddBodyWithEntity \/ RemoveBody

\* the physics world and the components registered with it
SpecBodies == InitBodies /\ [][NextBodies]_vars

\* the handles given out so far, live or not
Handles == 1..arena.bodies

\* two entities with dynamic bodies to come, each to be synchronized or not,
\* the second with or without a Transform
InitSync ==
    /\ InitBusIn(PhysEntities)
    /\ InitNoStep
    /\ InitNoCurve
    /\ InitStore
    /\ InitNoControllers
    /\ InitEmitterWith(Whole(1), 10, FALSE, TRUE)
    /\ bodies = <<>>
    /\ colliders = <<>>
    /\ arena = [bodies |-> 0, colliders |-> 0]
    /\ phys_ret = PhysReturned("new", 0, 0, 0, FALSE)
    /\ \E flags \in [PhysEntities -> BOOLEAN] :
           rbc = [e \in PhysEntities |->
                     [new_cuboid("Dynamic") EXCEPT !.should_sync = flags[e]]]
    /\ \E with \in {PhysEntities, {1}} :
           transform = [e \in with |-> TransformAt(<<0, 0>>)]

NotPhysics == UNCHANGED <<busVars, emitterVars, tickVars, stepVars, animVars, curveVars, storeVars>>

NotPhysicsButWorld ==
    UNCHANGED <<chan, deferred_events, gc_rdr, ret, published, seen, regAt, readAt,
                staged, emitterVars, tickVars, stepVars, animVars, curveVars, storeVars>>

\* the component of an entity is registered with the physics world
RegisterBody ==
    \E e \in world, translation \in Positions :
        add_body_with_entity(translation, e, e) /\ NotPhysics

Synchronize == synchronize /\ NotPhysics

ApplyImpulse ==
    \E h \in Handles, impulse \in Velocities :
        /\ h \in DOMAIN bodies => Impulsed(bodies[h], impulse).linvel \in Velocities
        /\ apply_impulse(h, impulse)
        /\ NotPhysics

SetVelocity ==
    \E h \in Handles, velocity \in Velocities : set_velocity(h, velocity) /\ NotPhysics

SetPosition ==
    \E h \in Handles, position \in Positions : set_position(h, position) /\ NotPhysics

NextSync ==
    \/ RegisterBody
    \/ RemoveBody
    \/ Synchronize
    \/ ApplyImpulse
    \/ SetVelocity
    \/ SetPosition

\* bodies moved by game code and copied out to the transforms
SpecSync == InitSync /\ [][NextSync]_vars

\* a physics world after the spawn of two entities, one with a dynamic and
\* one with a static body
InitStep ==
    /\ InitBusIn(PhysEntities)
    /\ InitNoStep
    /\ InitNoCurve
    /\ InitStore
    /\ InitNoControllers
    /\ InitEmitterWith(Whole(1), 10, FALSE, TRUE)
    /\ bodies = (1 :> [status |-> "Dynamic", pos |-> <<0, 0>>, linvel |-> <<0, 0>>,
                       user_data |-> 1])
                @@ (2 :> [status |-> "Static", pos |-> <<1, 2>>, linvel |-> <<0, 0>>,
                          user_data |-> 2])
    /\ colliders = (1 :> [parent |-> 1, sensor |-> FALSE])
                   @@ (2 :> [parent |-> 2, sensor |-> FALSE])
    /\ rbc = (1 :> [new_cuboid("Dynamic") EXCEPT !.handle = 1])
             @@ (2 :> [new_cuboid("Static") EXCEPT !.handle = 2])
    /\ arena = [bodies |-> 2, colliders |-> 2]
    /\ transform = [e \in PhysEntities |-> TransformAt(<<0, 0>>)]
    /\ phys_ret = PhysReturned("new", 0, 0, 0, FALSE)

NotBusGhosts == UNCHANGED <<gc_rdr, world, seen, regAt, readAt, staged>>

StepEnter ==
    /\ Len(published) + MaxNotifications <= MaxPublished
    /\ step_enter
    /\ reported' = <<>>
    /\ batch' = <<>>
    /\ UNCHANGED <<ret, published, emitterVars, tickVars, animVars, curveVars, storeVars>>
    /\ NotBusGhosts

StepNotify ==
    \E event \in Notifications :
        /\ Len(reported) < MaxNotifications
        /\ step_notify(event)
        /\ reported' = Append(reported, event)
        /\ UNCHANGED <<ret, published, batch, emitterVars, tickVars, animVars, curveVars, storeVars>>
        /\ NotBusGhosts

StepReturn ==
    \E moved \in Stepped :
        /\ step_return(moved)
        /\ published' = published \o ret'.events
        /\ batch' = ret'.events
        /\ UNCHANGED <<reported, emitterVars, tickVars, animVars, curveVars, storeVars>>
        /\ NotBusGhosts

\* nothing else runs between the entry and the return of step: the frame
\* loop is one thread and step holds the EventQueue mutably borrowed
NextStep ==
    \/ StepEnter
    \/ StepNotify
    \/ StepReturn
    \/ ~stepping /\ SingleWrite
    \/ ~stepping /\ Readers = {} /\ RegisterReader
    \/ ~stepping /\ Read

\* physics steps, another producer and a reader
SpecStep == InitStep /\ [][NextStep]_vars

\* a system stages an event; noted with it: the readers there are then
StageEvent ==
    \E d \in Durations :
        /\ Len(staged) < MaxStaged
        /\ add_deferred_event(GameEvent(Len(staged) + 1), TimerNew(d))
        /\ staged' = Append(staged, [duration |-> d, sum |-> 0, ticked |-> FALSE,
                                     readers |-> Readers])
        /\ UNCHANGED <<emitterVars, tickVars, physVars, stepVars, animVars, curveVars, storeVars, gc_rdr,
                       world, published, seen, regAt, readAt>>

NextPromote ==
    \/ (staged = <<>> /\ StageEvent)
    \/ UpdateDeferred
    \/ SingleWrite
    \/ (Readers = {} /\ RegisterReader)
    \/ Read

\* one staged event among direct writes, and a reader that registers at any
\* time
SpecPromote == Init /\ [][NextPromote]_vars

\* the most control points of a curve
MaxNodes == 3

\* the x of the control points, their values, and the t asked for
CurveXs == 0..4
CurveYs == {0, 1, 3}
CurveTs == -1..5

Sorted(xs) == \A i \in DOMAIN xs : \A j \in DOMAIN xs : i < j => xs[i] <= xs[j]

\* the curves of a game file that pass the assertion of y: as many xs as
\* ys, at least one, the xs in order (equal ones included)
Curves ==
    UNION {{[xs |-> xs, ys |-> ys] :
               xs \in {s \in [1..n -> CurveXs] : Sorted(s)}, ys \in [1..n -> CurveYs]}
           : n \in 1..MaxNodes}

InitCurve ==
    /\ InitBus
    /\ InitEmitterWith(Whole(1), 10, FALSE, TRUE)
    /\ InitPhysics
    /\ InitNoStep
    /\ InitNoControllers
    /\ InitStore
    /\ curve \in Curves
    /\ curve_ret = [called |-> FALSE, t |-> 0, y |-> NoValue]

Evaluate ==
    \E t \in CurveTs :
        /\ curve_ret' = [called |-> TRUE, t |-> t, y |-> Curve_y(curve, t)]
        /\ UNCHANGED <<busVars, emitterVars, tickVars, physVars, stepVars, animVars,
                       storeVars, curve>>

NextCurve == Evaluate

\* a curve and the calls of y on it
SpecCurve == InitCurve /\ [][NextCurve]_vars

\* one frame of the particle system once the entity of the emitter is gone
TickNone ==
    /\ ticks < MaxTicks
    /\ EmitterEntity \notin world
    /\ ParticleSystemUpdateNone
    /\ ticks' = ticks + 1
    /\ UNCHANGED <<total, first_slot, published, physVars, stepVars, animVars, curveVars,
                   storeVars, gc_rdr, world, seen, regAt, readAt, staged>>

\* the calls whose return ends the update of a frame, and its collect
AfterUpdate == ret.op \in {"single_write", "drain_vec_write"}
AfterCollect == ret.op \in {"register_reader", "read"}

\* the frames of a game that has one emitter: the collector is made first,
\* and each frame is ParticleSystem::update and then collect
NextReap ==
    \/ NewGarbageCollector
    \/ gc_rdr # 0 /\ AfterCollect /\ Tick
    \/ gc_rdr # 0 /\ AfterCollect /\ TickNone
    \/ AfterUpdate /\ Collect

\* an emitter and the garbage collector, frame after frame
SpecReap == InitTicks /\ [][NextReap]_vars

\* the indices of the entity store
StoreIndices == {1}

\* a store with one entity, the first of its index
InitSpawned ==
    /\ InitBusIn({Entity(1, 0)})
    /\ InitEmitterWith(Whole(1), 10, FALSE, TRUE)
    /\ InitPhysics
    /\ InitNoStep
    /\ InitNoControllers
    /\ InitNoCurve
    /\ generations = (1 :> 0)

\* game code spawns an entity; the store gives it an index that no entity
\* of the store has
Spawn ==
    \E index \in StoreIndices :
        /\ \A x \in world : x.index # index
        /\ world' = spawn(world, generations, index).world
        /\ generations' = spawn(world, generations, index).generations
        /\ ret' = Returned("spawn", 0, <<>>)
        /\ UNCHANGED <<chan, deferred_events, gc_rdr, published, seen, regAt, readAt,
                       staged, emitterVars, tickVars, physVars, stepVars, animVars,
                       curveVars>>

\* a system writes the Delete of an entity it has found in the store
WriteDeleteOf ==
    \E e \in world :
        /\ Len(published) < MaxPublished
        /\ single_write(Delete(e))
        /\ published' = Append(published, Delete(e))
        /\ UNCHANGED <<emitterVars, tickVars, physVars, stepVars, animVars, curveVars,
                       storeVars, gc_rdr, world, seen, regAt, readAt, staged>>

\* a system stages the Delete of an entity it has found in the store
StageDeleteOf ==
    \E e \in world, d \in Durations :
        /\ Len(staged) < MaxStaged
        /\ Len(published) + Len(staged) < MaxPublished
        /\ add_deferred_event(Delete(e), TimerNew(d))
        /\ staged' = Append(staged, [duration |-> d, sum |-> 0, ticked |-> FALSE])
        /\ UNCHANGED <<emitterVars, tickVars, physVars, stepVars, animVars, curveVars,
                       storeVars, gc_rdr, world, published, seen, regAt, readAt>>

NextStore ==
    \/ NewGarbageCollector
    \/ Spawn
    \/ WriteDeleteOf
    \/ (staged = <<>> /\ StageDeleteOf)
    \/ UpdateDeferred
    \/ Collect

\* entities that come and go at one index, their Delete events written at
\* once or, for one of them, staged, and the garbage collector
SpecStore == InitSpawned /\ [][NextStore]_vars

\* the RigidBodyComponent of a game file, if it has one: to be synchronized
\* or not
FileComponents ==
    {NoComponent} \cup {[new_cuboid("Dynamic") EXCEPT !.should_sync = flag] : flag \in BOOLEAN}

\* an empty store and an empty physics world
InitEmpty ==
    /\ InitBusIn({})
    /\ InitEmitterWith(Whole(1), 10, FALSE, TRUE)
    /\ InitNoStep
    /\ InitNoControllers
    /\ InitNoCurve
    /\ InitStore
    /\ bodies = <<>>
    /\ colliders = <<>>
    /\ rbc = <<>>
    /\ arena = [bodies |-> 0, colliders |-> 0]
    /\ transform = <<>>
    /\ phys_ret = PhysReturned("new", 0, 0, 0, FALSE)

SpawnAtPos ==
    \E e \in PhysEntities \ world, translation \in Positions, c \in FileComponents,
       pos \in Positions :
        /\ spawn_at_pos(e, TransformAt(translation), c, pos)
        /\ UNCHANGED <<chan, deferred_events, gc_rdr, ret, published, seen, regAt, readAt,
                       staged, emitterVars, tickVars, stepVars, animVars, curveVars,
                       storeVars>>

\* synchronize leaves the store as it is
SynchronizeSpawned == synchronize /\ UNCHANGED world /\ NotPhysicsButWorld

NextSpawn ==
    \/ SpawnAtPos
    \/ SynchronizeSpawned

\* entities spawned from game files at a position, and synchronize
SpecSpawn == InitEmpty /\ [][NextSpawn]_vars

\* a system of the game asks for the deletion of an entity of the store
WriteDelete ==
    \E e \in PhysEntities :
        /\ Len(published) < MaxPublished
        /\ single_write(Delete(e))
        /\ published' = Append(published, Delete(e))
        /\ UNCHANGED <<emitterVars, tickVars, physVars, stepVars, animVars, curveVars, storeVars, gc_rdr,
                       world, seen, regAt, readAt, staged>>

NextCollect ==
    \/ ~stepping /\ WriteDelete
    \/ ~stepping /\ NewGarbageCollector
    \/ ~stepping /\ Collect
    \/ StepEnter
    \/ StepNotify
    \/ StepReturn

\* the garbage collector, the systems that write Delete events and the
\* physics steps, over two entities that each have a body
SpecCollect == InitStep /\ [][NextCollect]_vars

\* what an entity may be built with: an animation to play, ending or not
\* with its deletion, the name of an animation its map does not have, no
\* animation, and a material that is not a sprite
AnimConfigs ==
    {[controller |-> Controller("run", TRUE), render |-> Sprite(0)],
     [controller |-> Controller("run", FALSE), render |-> Sprite(0)],
     [controller |-> Controller("gone", TRUE), render |-> Sprite(0)],
     [controller |-> Controller(NoAnimation, TRUE), render |-> Sprite(0)],
     [controller |-> Controller("run", TRUE), render |-> Shader]}

\* the time a frame takes, in time units
AnimDts == {0, 1}

InitAnim ==
    /\ InitBusIn(AnimEntities)
    /\ InitEmitterWith(Whole(1), 10, FALSE, TRUE)
    /\ InitPhysics
    /\ InitNoStep
    /\ InitNoCurve
    /\ InitStore
    /\ \E cfg \in [AnimEntities -> AnimConfigs] :
           /\ controllers = [e \in AnimEntities |-> cfg[e].controller]
           /\ renders = [e \in AnimEntities |-> cfg[e].render]

Animate ==
    \E dt \in AnimDts :
        /\ animate(dt)
        /\ Len(published) + Len(ret'.events) <= MaxPublished
        /\ published' = published \o ret'.events
        /\ UNCHANGED <<emitterVars, tickVars, physVars, stepVars, curveVars, storeVars,
                       gc_rdr, seen, regAt,
                       readAt, staged>>

NextAnim ==
    \/ Animate
    \/ Readers = {} /\ RegisterReader
    \/ Read

\* animated entities and a reader of their events
SpecAnim == InitAnim /\ [][NextAnim]_vars

\* a game of two entities: entity 1 has a burst emitter of short-lived
\* particles and a dynamic body, entity 2 an animation that ends with its
\* deletion
InitFrame ==
    /\ InitBusIn(PhysEntities)
    /\ InitNoStep
    /\ InitNoCurve
    /\ InitStore
    /\ InitEmitterWith(Whole(1), 1, TRUE, TRUE)
    /\ bodies = (1 :> [status |-> "Dynamic", pos |-> <<0, 0>>, linvel |-> <<0, 0>>,
                       user_data |-> 1])
    /\ colliders = (1 :> [parent |-> 1, sensor |-> FALSE])
    /\ rbc = (1 :> [new_cuboid("Dynamic") EXCEPT !.handle = 1])
    /\ arena = [bodies |-> 1, colliders |-> 1]
    /\ transform = [e \in PhysEntities |-> TransformAt(<<0, 0>>)]
    /\ phys_ret = PhysReturned("new", 0, 0, 0, FALSE)
    /\ controllers = (2 :> Controller("run", TRUE))
    /\ renders = (2 :> Sprite(0))

\* the systems of a frame and the garbage collector; with one collider in
\* the simulation the engine has no pair to report during a step
NextFrame ==
    \/ StepEnter
    \/ StepReturn
    \/ ~stepping /\ Synchronize
    \/ ~stepping /\ Len(published) < MaxPublished /\ Tick
    \/ ~stepping /\ Animate
    \/ ~stepping /\ NewGarbageCollector
    \/ ~stepping /\ Collect

\* the frames of a game
SpecFrame == InitFrame /\ [][NextFrame]_vars

\* ----------------------------------------------------------------- claims
\* the log entries reader r must have been given so far: those published
\* between its registration and its last read, once each, in publish order
Expected(r) ==
    [i \in 1..(readAt[r] - regAt[r]) |->
        [seq |-> regAt[r] + i, ev |-> published[regAt[r] + i]]]

\* C1: whatever the interleaving of single_write, drain_vec_write and reads,
\* the concatenation of a reader's reads is exactly the sequence of the events
\* published after its registration (up to its last read): each once, in
\* publish order.
C1_EachReaderSeesAllOnceInOrder == \A r \in Readers : seen[r] = Expected(r)

\* two readers, registered at different times, that read at different times
C1_Witness ==
    \E r1 \in Readers, r2 \in Readers :
        /\ regAt[r1] > regAt[r2]
        /\ Len(seen[r1]) >= 2
        /\ Len(seen[r2]) >= 1
        /\ readAt[r2] < readAt[r1]

\* C2: a reader never gets from read an event that entered the log (by
\* single_write, drain_vec_write or promotion) before its register_reader
\* call: every entry it gets was written after the registration, and a staged
\* event promoted before the registration is never returned to it.
C2_NothingFromBeforeRegistration ==
    \A r \in Readers : \A i \in DOMAIN seen[r] :
        LET e == seen[r][i]
        IN  /\ e.seq > regAt[r]
            /\ e.seq <= Len(published)
            /\ published[e.seq] = e.ev
            /\ e.ev.kind = "GameEvent" =>
                   \A j \in 1..regAt[r] : published[j] # e.ev

\* a reader registered after a direct and a promoted event, that has read
C2_Witness ==
    \E r \in Readers :
        /\ \E j \in 1..regAt[r] : published[j] \in DirectEvents
        /\ \E j \in 1..regAt[r] : published[j].kind = "GameEvent"
        /\ seen[r] # <<>>

IsRead(r) == ret'.op = "read" /\ ret'.rdr = r

\* the scenario of C3: both readers registered, then Delete(entityA) and
\* PlaySound("x") published
Scenario ==
    /\ Readers = {1, 2}
    /\ regAt[1] = 0
    /\ regAt[2] = 0
    /\ published = <<Delete(1), PlaySound(1)>>

\* C3: a read by one reader (a collect of the garbage collector included)
\* changes nothing another reader will get; in the scenario each reader's next
\* read yields exactly [Delete(entityA), PlaySound("x")] whichever reads
\* first, and a further read yields nothing.
C3_ReadsAreIndependent ==
    [][\A r \in Readers :
          IsRead(r) =>
            /\ \A o \in Readers \ {r} : ChanPending(chan', o) = ChanPending(chan, o)
            /\ (Scenario /\ readAt[r] = 0) => EventsOf(ret'.events) = published
            /\ (Scenario /\ readAt[r] = 2) => ret'.events = <<>>]_vars

\* both readers, one of them the garbage collector, have got the two events,
\* and the last read, a further one, got nothing
C3_Witness ==
    /\ Scenario
    /\ gc_rdr # 0
    /\ EventsOf(seen[1]) = published
    /\ EventsOf(seen[2]) = published
    /\ world = {}
    /\ ret.op = "read"
    /\ ret.events = <<>>

\* C4: every event beyond the cursor of a registered reader is still in the
\* log, however far the reader lags: its next read returns all of them.
C4_UnreadEventsAreRetained ==
    \A r \in Readers :
        EventsOf(ChanPending(chan, r)) = SubSeq(published, readAt[r] + 1, Len(published))

\* a reader lags by more than the initial capacity of the ring
C4_Witness == \E r \in Readers : Len(published) - readAt[r] > ChanCapacity

\* C5: while no reader is registered, the log keeps at most the initial
\* capacity of the ring, however many events are published.
C5_NoReaderNoGrowth ==
    Readers = {} => (Len(chan.data) <= ChanCapacity /\ chan.size = ChanCapacity)

\* more events published than the ring holds, no reader registered
C5_Witness == Readers = {} /\ Len(published) > ChanCapacity

InLog(ev) == \E i \in DOMAIN chan.data : chan.data[i].ev = ev

\* C6: the k-th staged event, of duration D, is in the log exactly from the
\* first update_deferred call on at which the sum of the dt since its staging
\* reaches or exceeds D; before, it is in no log and no read returns it.
C6_PromotedWhenDurationReached ==
    \A k \in DOMAIN staged :
        /\ (GameEvent(k) \in Range(published)) <=> Done(staged[k])
        /\ ~Done(staged[k]) =>
              /\ ~InLog(GameEvent(k))
              /\ \A r \in Readers : GameEvent(k) \notin Range(EventsOf(seen[r]))

\* an event promoted by a call at which the sum exceeded its duration, and
\* an event still waiting after a call
C6_Witness ==
    \E k \in DOMAIN staged, w \in DOMAIN staged :
        /\ staged[k].duration > 0
        /\ staged[k].sum > staged[k].duration
        /\ GameEvent(k) \in Range(published)
        /\ staged[w].ticked
        /\ ~Done(staged[w])

Occurrences(ev) == Cardinality({i \in DOMAIN published : published[i] = ev})

IsStaged(ev) == \E i \in DOMAIN deferred_events : deferred_events[i].ev = ev

\* C7: every staged event is written to the log exactly once: it is either
\* still in the staging list, once, and was never written, or out of the staging
\* list and was written once.
C7_PromotedExactlyOnce ==
    \A k \in DOMAIN staged :
        /\ Occurrences(GameEvent(k)) <= 1
        /\ IsStaged(GameEvent(k)) <=> Occurrences(GameEvent(k)) = 0
        /\ Cardinality({i \in DOMAIN deferred_events :
                           deferred_events[i].ev = GameEvent(k)}) <= 1

\* an update_deferred call that promotes nothing, after a promotion
C7_Witness ==
    /\ ret.op = "update_deferred"
    /\ ret.events = <<>>
    /\ \E k \in DOMAIN staged : Occurrences(GameEvent(k)) = 1

\* staged events are told apart by their rank, so staging order is rank order
InStagingOrder(evs) ==
    \A i \in DOMAIN evs : \A j \in DOMAIN evs : i < j => evs[i].arg < evs[j].arg

\* C8: the events an update_deferred call promotes are appended to the log
\* in the order they were staged, and the entries left in the staging list
\* keep their relative order.
C8_PromotionKeepsStagingOrder ==
    /\ InStagingOrder(EventsOf(deferred_events))
    /\ ret.op = "update_deferred" =>
          /\ InStagingOrder(ret.events)
          /\ Len(ret.events) <= Len(published)
          /\ SubSeq(published, Len(published) - Len(ret.events) + 1, Len(published))
                = ret.events
          /\ \A i \in DOMAIN chan.data : \A j \in DOMAIN chan.data :
                (i < j /\ chan.data[i].ev \in Range(ret.events)
                       /\ chan.data[j].ev \in Range(ret.events))
                    => chan.data[i].ev.arg < chan.data[j].ev.arg

\* two staged events finish in the same update_deferred call
C8_Witness == ret.op = "update_deferred" /\ Len(ret.events) >= 2

\* C9: single_write, drain_vec_write, read and register_reader leave the
\* staging list unchanged; update_deferred(dt) advances every staged timer by
\* dt and removes exactly the entries whose timer has then finished.
C9_StagedEventsOnlyAdvance ==
    [][/\ ret'.op \in {"single_write", "drain_vec_write", "read", "register_reader"}
          => deferred_events' = deferred_events
       /\ ret'.op = "update_deferred" =>
            \E dt \in Dts :
              /\ \A k \in DOMAIN staged :
                    ~Done(staged[k]) => staged'[k].sum = staged[k].sum + dt
              /\ deferred_events' =
                    SelectSeq([i \in DOMAIN deferred_events |->
                                 [deferred_events[i] EXCEPT !.timer.elapsed = @ + dt]],
                              LAMBDA e : e.timer.elapsed < e.timer.duration)]_vars

\* a direct publish while an event is staged with its countdown under way
C9_Witness ==
    /\ ret.op \in {"single_write", "drain_vec_write"}
    /\ \E i \in DOMAIN deferred_events : deferred_events[i].timer.elapsed > 0

\* C10: get_available never hands out a slot that is claimed (handed out and
\* not pushed back to the free-list since), nor the same slot twice in one
\* update.
C10_NoSlotHandedOutWhileClaimed ==
    [][/\ \A i \in DOMAIN popped' : popped'[i] \notin claimed
       /\ \A i \in DOMAIN popped' : \A j \in DOMAIN popped' :
             i # j => popped'[i] # popped'[j]
       /\ claimed' \cap Range(particles'.free) = {}]_vars

\* a slot is handed out while another, handed out earlier, is still claimed
C10_Witness == popped # <<>> /\ claimed \ Range(popped) # {}

NoDuplicates(seq) ==
    \A i \in DOMAIN seq : \A j \in DOMAIN seq : i # j => seq[i] # seq[j]

Slots == DOMAIN particles.particles

\* C11: the free-list never holds a slot twice, holds only slots of the pool,
\* and is never longer than the pool.
C11_FreeListIsASetOfSlots ==
    /\ NoDuplicates(particles.free)
    /\ Range(particles.free) \subseteq Slots
    /\ Len(particles.free) <= Len(particles.particles)

\* the scan has run over a pool with free slots and with claimed ones
C11_Witness ==
    /\ particles.init
    /\ requested > 0
    /\ particles.free # <<>>
    /\ claimed # {}

\* C12 as stated: after every update a slot is in the free-list exactly when
\* its particle is dead (life = 0).
C12_Original ==
    particles.init =>
        \A i \in Slots : i \in Range(particles.free) <=> ~alive(particles.particles[i])

\* C12: after every update every slot of the free-list is dead, and every dead
\* slot is in the free-list except those whose life reached 0 in that very
\* update: these are pushed by the scan of the next update.
C12_FreeMeansDeadAndDeadIsFreeOneUpdateLater ==
    particles.init =>
        /\ \A i \in Range(particles.free) : ~alive(particles.particles[i])
        /\ \A i \in Slots :
              ~alive(particles.particles[i]) => i \in Range(particles.free) \cup died
        /\ died \cap Range(particles.free) = {}

\* after an update one dead slot is in the free-list and another, whose life
\* has just reached 0, is not
C12_Witness ==
    /\ particles.init
    /\ died # {}
    /\ \E i \in Range(particles.free) : ~alive(particles.particles[i])
    /\ \E i \in Slots : alive(particles.particles[i])

\* C13: once the pool is sized its number of slots never changes, and the
\* slots handed out and the particles alive never exceed it.
C13_PoolNeverGrows ==
    [][/\ particles.init => Len(particles'.particles) = Len(particles.particles)
       /\ claimed' \subseteq DOMAIN particles'.particles
       /\ Cardinality(claimed') <= Len(particles'.particles)
       /\ Cardinality({i \in DOMAIN particles'.particles :
                          alive(particles'.particles[i])})
             <= Len(particles'.particles)]_vars

\* an update has run on a pool all of whose slots are handed out
C13_Witness ==
    /\ particles.init
    /\ requested > 0
    /\ Slots # {}
    /\ claimed = Slots
    /\ particles.free = <<>>

\* C14: when an update asks for more particles than the free-list holds, the
\* free slots are handed out and the other requests are dropped: the pool
\* keeps its size, every particle that was alive keeps its slot and only
\* ages by one frame, and the result of the update is computed as usual.
C14_ExhaustedPoolDropsTheSpawn ==
    [][requested' > Len(SizedPool.free) =>
          /\ Len(popped') = Len(SizedPool.free)
          /\ Len(particles'.particles) = Len(SizedPool.particles)
          /\ \A i \in DOMAIN SizedPool.particles :
                alive(SizedPool.particles[i]) =>
                    /\ i \notin Range(popped')
                    /\ particles'.particles[i] = ParticleUpdate(SizedPool.particles[i])
          /\ still_alive' = ~(burst /\ all_dead(particles'))]_vars

\* an update has handed out the last free slot and dropped a request while
\* a particle spawned earlier was alive: that particle has aged by one frame
C14_Witness ==
    /\ requested > Len(popped)
    /\ popped # <<>>
    /\ particles.free = <<>>
    /\ died \ Range(popped) # {}

\* the slots out of the free-list, and those whose particle has life left
OutOfFree == Slots \ Range(particles.free)

Alive == {i \in Slots : alive(particles.particles[i])}

\* a non-burst, enabled emitter of one particle per frame that live 10 frames
OnePerFrameForTen ==
    /\ ~burst /\ enabled
    /\ particle_number = Whole(1)
    /\ particle_life = 10

C16_SpawnedIsFloorOfRateTimesTicks ==
    ~burst /\ enabled =>
        /\ total = (ticks * particle_number) \div 10
        /\ nb_accumulator = (ticks * particle_number) % 10

\* 10 updates at rate 0.3 have spawned 3 particles
C16_Witness ==
    /\ ~burst /\ enabled
    /\ particle_number = 3
    /\ ticks = 10
    /\ total = 3

C19_Original ==
    [][/\ particles'.init =>
             Len(particles'.particles) =
                 IF burst' THEN 1 ELSE Ceil(particle_number') * (particle_life' + 1)
       /\ particles.init => Len(particles'.particles) = Len(particles.particles)]_vars

\* C19: a pool that gets sized, by the first update or by init_pool at load
\* time, has ceil(rate) * (particle_life + 1) slots for a non-burst emitter
\* and ceil(rate) slots, one frame of particles, for a burst emitter; update
\* does not size again a pool that is sized.
C19_PoolSizedByRateAndFrames ==
    [][/\ particles'.init =>
             Len(particles'.particles) =
                 IF burst' THEN Ceil(particle_number')
                 ELSE Ceil(particle_number') * (particle_life' + 1)
       /\ particles.init => Len(particles'.particles) = Len(particles.particles)]_vars

\* a burst emitter of two particles per frame has its pool sized: two slots
C19_Witness ==
    /\ particles.init
    /\ burst
    /\ particle_number = Whole(2)
    /\ Len(particles.particles) = 2

WithHandle == {e \in PhysEntities : rbc[e].handle # 0}

\* C20: add_body on a component that caches a handle returns that handle and
\* changes no body, no collider and no component; on a component without a
\* handle it inserts one body and one collider attached to it, caches the
\* new handle on that component and returns it.  So there are never more
\* bodies than components with a handle, whatever the number of calls.
C20_AddBodyIsIdempotent ==
    [][LET e == phys_ret'.c
           h == phys_ret'.handle
       IN  phys_ret'.op = "add_body" =>
             /\ rbc[e].handle # 0 =>
                   /\ h = rbc[e].handle
                   /\ bodies' = bodies
                   /\ colliders' = colliders
                   /\ rbc' = rbc
             /\ rbc[e].handle = 0 =>
                   /\ h \notin DOMAIN bodies
                   /\ DOMAIN bodies' = DOMAIN bodies \cup {h}
                   /\ \A b \in DOMAIN bodies : bodies'[b] = bodies[b]
                   /\ Cardinality(DOMAIN colliders') = Cardinality(DOMAIN colliders) + 1
                   /\ \A k \in DOMAIN colliders : colliders'[k] = colliders[k]
                   /\ \A k \in DOMAIN colliders' \ DOMAIN colliders :
                         colliders'[k].parent = h
                   /\ rbc' = [rbc EXCEPT ![e].handle = h]
             /\ Cardinality(DOMAIN bodies') <= Cardinality({x \in PhysEntities :
                                                              rbc'[x].handle # 0})]_vars

\* add_body has been called on a component that already had its handle,
\* every component has its body
C20_Witness ==
    /\ phys_ret.op = "add_body"
    /\ phys_ret.cached
    /\ WithHandle = PhysEntities
    /\ Cardinality(DOMAIN bodies) = Cardinality(PhysEntities)

\* C21: add_body_with_entity returns the handle add_body returns; when that
\* handle resolves to a body, the body's user data is the entity's bits
\* afterwards, also when the component had the handle cached; when it does
\* not resolve, no body and no collider changes.  No other body changes.
C21_EntityStampedOnLiveBody ==
    [][LET c == phys_ret'.c
           e == phys_ret'.e
           h == phys_ret'.handle
       IN  phys_ret'.op = "add_body_with_entity" =>
             /\ \A t \in Positions : h = add_body_result(t, c).handle
             /\ h \in DOMAIN bodies' => bodies'[h].user_data = e
             /\ h \notin DOMAIN bodies' => bodies' = bodies /\ colliders' = colliders
             /\ \A b \in DOMAIN bodies \ {h} : b \in DOMAIN bodies' /\ bodies'[b] = bodies[b]
             /\ rbc'[c].handle = h]_vars

\* add_body_with_entity has been called for another entity on a component
\* whose cached handle resolves: the body carries the bits of that entity;
\* another component caches a handle whose body is gone
C21_Witness ==
    /\ phys_ret.op = "add_body_with_entity"
    /\ phys_ret.cached
    /\ phys_ret.handle \in DOMAIN bodies
    /\ phys_ret.e # phys_ret.c
    /\ bodies[phys_ret.handle].user_data = phys_ret.e
    /\ \E x \in PhysEntities : rbc[x].handle # 0 /\ rbc[x].handle \notin DOMAIN bodies

\* the entities synchronize has something to copy for
Syncable ==
    {e \in SyncQuery : /\ rbc[e].should_sync
                       /\ rbc[e].handle # 0
                       /\ rbc[e].handle \in DOMAIN bodies}

\* C24: synchronize sets the translation of the transform of every entity
\* that has a Transform and a RigidBodyComponent with should_sync, a cached
\* handle and a body that handle resolves to, to the position of that body;
\* it leaves every other transform, the scale and rotation of every
\* transform and the whole physics state as they are.
C24_SynchronizeCopiesLiveSyncedBodies ==
    [][phys_ret'.op = "synchronize" =>
          /\ DOMAIN transform' = DOMAIN transform
          /\ \A e \in Syncable :
                transform'[e] = [transform[e] EXCEPT
                                    !.translation = bodies[rbc[e].handle].pos]
          /\ \A e \in DOMAIN transform \ Syncable : transform'[e] = transform[e]
          /\ UNCHANGED <<bodies, colliders, rbc, arena>>]_vars

\* synchronize has moved the transform of one entity to its body and left
\* alone that of an entity whose body is elsewhere and which is not to be
\* synchronized or whose handle is stale
C24_Witness ==
    /\ phys_ret.op = "synchronize"
    /\ \E e \in Syncable : transform[e].translation = <<1, 2>>
    /\ \E e \in DOMAIN transform \ Syncable :
          /\ rbc[e].handle # 0
          /\ rbc[e].handle \in DOMAIN bodies =>
                bodies[rbc[e].handle].pos # transform[e].translation

\* C25: apply_impulse, set_velocity and set_position with a handle that
\* does not resolve change nothing of the physics state and no transform;
\* with a handle that resolves they change that body only: set_position its
\* position only, the other two its velocity only.
C25_StaleHandleIsNoOpLiveHandleIsLocal ==
    [][LET h == phys_ret'.handle
       IN  phys_ret'.op \in {"apply_impulse", "set_velocity", "set_position"} =>
             /\ UNCHANGED <<colliders, rbc, arena, transform>>
             /\ DOMAIN bodies' = DOMAIN bodies
             /\ \A b \in DOMAIN bodies \ {h} : bodies'[b] = bodies[b]
             /\ h \in DOMAIN bodies =>
                   /\ bodies'[h].status = bodies[h].status
                   /\ bodies'[h].user_data = bodies[h].user_data
                   /\ phys_ret'.op = "set_position" => bodies'[h].linvel = bodies[h].linvel
                   /\ phys_ret'.op # "set_position" => bodies'[h].pos = bodies[h].pos]_vars

\* one of the three has been called with the handle of a removed body while
\* another body is in the simulation
C25_Witness ==
    /\ phys_ret.op \in {"apply_impulse", "set_velocity", "set_position"}
    /\ phys_ret.handle \notin DOMAIN bodies
    /\ bodies # <<>>

\* the event the specification names for a notification
EventOf(note) ==
    IF note.type = "proximity" THEN ProximityEvent(note.collider1, note.collider2)
    ELSE ContactEvent(note.collider1, note.collider2)

\* C22 as stated: once a step has returned, the EventQueue has received one
\* event for every notification of the step, a ContactEvent for a contact
\* and a ProximityEvent for a proximity notification.
C22_Original ==
    ~stepping => batch = [i \in DOMAIN reported |-> EventOf(reported[i])]

\* the notifications of a step that the event handler turns into an event
Kept(notes) ==
    SelectSeq(notes, LAMBDA n : n.type = "proximity" /\ n.new_status = "Intersecting")

\* C23: while a step is under way nothing is written to the EventQueue; on
\* its return the step writes the events of its notifications as one run of
\* consecutive log entries, in the order the engine reported them, and a
\* read returns events of finished steps only.
C23_StepPublishesOneBatchAtItsEnd ==
    [][/\ stepping /\ stepping' => chan' = chan /\ published' = published
       /\ stepping /\ ~stepping' =>
             LET events == [i \in DOMAIN Kept(reported) |-> EventOf(Kept(reported)[i])]
             IN  /\ published' = published \o events
                 /\ chan'.written = chan.written + Len(events)
                 /\ \A i \in DOMAIN events :
                       \E k \in DOMAIN chan'.data :
                           /\ chan'.data[k].seq = chan.written + i
                           /\ chan'.data[k].ev = events[i]
       /\ stepping => seen' = seen
       /\ \A r \in DOMAIN seen' :
             \A i \in DOMAIN seen'[r] :
                 seen'[r][i].ev = published'[seen'[r][i].seq]]_vars

\* a reader has read, after a write of another producer, the two events of
\* a step, different ones
C23_Witness ==
    /\ ~stepping
    /\ Len(batch) = 2 /\ batch[1] # batch[2]
    /\ \E r \in Readers :
          \E i \in DOMAIN seen[r] :
              /\ i > 1 /\ i + 1 <= Len(seen[r])
              /\ seen[r][i].ev = batch[1]
              /\ seen[r][i + 1].ev = batch[2]
              /\ seen[r][i - 1].ev.kind \notin {"ProximityEvent", "ContactEvent"}

\* C30: animate leaves the animations and the sprite number of an entity
\* whose current_animation is not in its animations map as they are and
\* pushes no event for it, and it goes on with the other entities: those
\* that have their animation are animated as if the entity was not there.
C30_MissingAnimationIsSkipped ==
    [][ret'.op = "animate" =>
          \A e \in AnimQuery :
              /\ Missing(e) =>
                    /\ controllers'[e] = controllers[e]
                    /\ renders'[e] = renders[e]
                    /\ Delete(e) \notin Range(ret'.events)
              /\ Playing(e) =>
                    \E dt \in AnimDts :
                        LET c == controllers[e]
                            r == Animated(c.animations[c.current_animation], dt,
                                          c.delete_on_finished)
                        IN  /\ controllers'[e].animations[c.current_animation] = r.animation
                            /\ renders'[e].sprite_nb = r.sprite_nb
                            /\ r.delete <=> Delete(e) \in Range(ret'.events)]_vars

\* animate has met an entity whose animation is missing and then one whose
\* animation came to its end: the Delete of the second is written
C30_Witness ==
    /\ ret.op = "animate"
    /\ Missing(1)
    /\ Playing(2)
    /\ ret.events = <<Delete(2)>>
    /\ renders[2].sprite_nb = 7

\* a step of the garbage collector's collect
IsCollect == gc_rdr # 0 /\ ret'.op = "read" /\ ret'.rdr = gc_rdr /\ ~stepping /\ ~stepping'

\* C26: what the collect calls have read so far is the log from the creation
\* of the collector on, every event once and in order, so a Delete written
\* after the creation is read by the first collect that follows it and by
\* no other; a collect takes out of the store the entities of the Delete
\* events it reads and nothing else, and no entity whose Delete was read is
\* in the store afterwards.
C26_EveryDeleteCollectedOnceByTheNextCollect ==
    [][IsCollect =>
          LET since == SubSeq(published, readAt[gc_rdr] + 1, Len(published))
          IN  /\ EventsOf(ret'.events) = since
              /\ EventsOf(seen'[gc_rdr]) = SubSeq(published, regAt[gc_rdr] + 1, Len(published))
              /\ world' = world \ {e \in PhysEntities : Delete(e) \in Range(since)}
              /\ \A i \in (regAt[gc_rdr] + 1)..Len(published) :
                    published[i].kind = "Delete" => published[i].arg \notin world']_vars

\* collect has read an event of a step and then a Delete: the entity of the
\* Delete is gone, the other one is there
C26_Witness ==
    /\ ~stepping
    /\ gc_rdr # 0 /\ ret.op = "read" /\ ret.rdr = gc_rdr
    /\ Len(ret.events) = 2
    /\ ret.events[1].ev.kind = "ProximityEvent"
    /\ ret.events[2].ev = Delete(1)
    /\ world = {2}

\* a Delete of the read finds its entity gone: it was not in the store
\* before the call, or an earlier Delete of the same read names it
FailingDespawn(w, entries) ==
    \E i \in DOMAIN entries :
        /\ entries[i].ev.kind = "Delete"
        /\ \/ entries[i].ev.arg \notin w
           \/ \E j \in 1..(i - 1) : entries[j].ev = entries[i].ev

\* C27: a collect that meets a Delete whose entity is gone already goes on:
\* the entities of all the Delete events of its read, those after the
\* failed one too, are out of the store, which is as one Delete per entity
\* leaves it, and the read is recorded as any other.
C27_DeleteOfAGoneEntityIsPassedOver ==
    [][IsCollect /\ FailingDespawn(world, ret'.events) =>
          /\ world' = world \ Deleted(ret'.events)
          /\ chan'.readers[gc_rdr] = chan.written]_vars

\* collect has read two Delete of entity 1 and then one of entity 2: both
\* are gone
C27_Witness ==
    /\ ~stepping
    /\ gc_rdr # 0 /\ ret.op = "read" /\ ret.rdr = gc_rdr
    /\ EventsOf(ret.events) = <<Delete(1), Delete(1), Delete(2)>>
    /\ world = {}

\* C29: collect changes no body and no collider, so the body a despawned
\* entity had registered is still in the simulation with its collider, and
\* its user data is still the despawned entity.
C29_DespawnLeavesTheBodyInTheSimulation ==
    [][/\ IsCollect => bodies' = bodies /\ colliders' = colliders
       /\ \A e \in DOMAIN rbc \ world' :
             rbc'[e].handle # 0 =>
                 /\ rbc'[e].handle \in DOMAIN bodies'
                 /\ bodies'[rbc'[e].handle].user_data = e
                 /\ \E c \in DOMAIN colliders' : colliders'[c].parent = rbc'[e].handle]_vars

\* after entity 1 was despawned a step has moved its body and reported its
\* collider
C29_Witness ==
    /\ 1 \notin world
    /\ ret.op = "step"
    /\ bodies[1].user_data = 1
    /\ bodies[1].pos # <<0, 0>>
    /\ \E i \in DOMAIN batch : batch[i].arg = 1

\* C28: a step that changes the set of entities is a collect: the cursor of
\* the collector moves over events it had not read, entities only leave,
\* and nothing of the physics, of the emitter or of the animations changes
\* in it; so step, synchronize, ParticleSystem::update and animate leave
\* the entities as they are, whatever Delete events they write.
C28_OnlyCollectDespawns ==
    [][world' # world =>
          /\ gc_rdr # 0
          /\ chan.readers[gc_rdr] < chan.written
          /\ chan'.readers[gc_rdr] = chan.written
          /\ ret'.op = "read" /\ ret'.rdr = gc_rdr
          /\ world' \subseteq world
          /\ UNCHANGED <<emitterVars, physVars, stepVars, animVars, published>>]_vars

\* the emitter and the animation have written the Delete of their entities,
\* a step has moved the body and synchronize has copied it, and both
\* entities are in the store: no collect has run since
C28_Witness ==
    /\ world = PhysEntities
    /\ gc_rdr # 0
    /\ Delete(1) \in Range(published)
    /\ Delete(2) \in Range(published)
    /\ transform[1].translation # <<0, 0>>
    /\ phys_ret.op = "synchronize"

\* where event ev is in the sequence of all events written, 0 if nowhere
PositionOf(ev, log) ==
    IF ev \in Range(log) THEN CHOOSE i \in DOMAIN log : log[i] = ev ELSE 0

\* C31: an update_deferred call puts the events it promotes at the end of
\* the log, after all that was written before it, whenever they were
\* staged; no later call moves an entry or writes before it; and a reader
\* registered before the promoting call, after the staging or before it,
\* has the promoted events among those its next read returns, and has read
\* them once it has read past their position.
C31_PromotionFixesThePosition ==
    [][/\ ret'.op = "update_deferred" =>
             /\ published' = published \o ret'.events
             /\ chan'.written = chan.written + Len(ret'.events)
             /\ \A i \in DOMAIN ret'.events :
                   /\ \E k \in DOMAIN chan'.data :
                         /\ chan'.data[k].seq = chan.written + i
                         /\ chan'.data[k].ev = ret'.events[i]
                   /\ \A r \in Readers :
                         ret'.events[i] \in Range(EventsOf(ChanPending(chan', r)))
       /\ SubSeq(published', 1, Len(published)) = published
       /\ chan'.written >= chan.written
       /\ \A k \in DOMAIN chan'.data :
             chan'.data[k].seq <= chan.written =>
                 \E j \in DOMAIN chan.data : chan.data[j] = chan'.data[k]
       /\ \A r \in DOMAIN seen', k \in DOMAIN staged' :
             LET p == PositionOf(GameEvent(k), published')
             IN  (p > regAt'[r] /\ readAt'[r] >= p) =>
                     \E i \in DOMAIN seen'[r] :
                         seen'[r][i] = [seq |-> p, ev |-> GameEvent(k)]]_vars

\* an event staged before the reader registered was promoted between two
\* direct writes, and the reader has read it
C31_Witness ==
    \E r \in Readers, k \in DOMAIN staged :
        LET p == PositionOf(GameEvent(k), published)
        IN  /\ r \notin staged[k].readers
            /\ p > regAt[r]
            /\ p > 1 /\ p < Len(published)
            /\ published[p - 1] \in DirectEvents
            /\ published[p + 1] \in DirectEvents
            /\ GameEvent(k) \in Range(EventsOf(seen[r]))

StrictlyOrdered(xs) == \A i \in DOMAIN xs : \A j \in DOMAIN xs : i < j => xs[i] < xs[j]

C33_LifeNeverUnderflows ==
    \A i \in DOMAIN particles.particles :
        LET p == particles.particles[i]
        IN  /\ 0 <= p.life
            /\ p.life <= p.initial_life
            /\ alive(p) =>
                  /\ p.initial_life > 0
                  /\ Particle_t(p).den > 0
                  /\ 0 <= Particle_t(p).num
                  /\ Particle_t(p).num < Particle_t(p).den

\* a particle that has aged and is alive next to one whose life has come
\* to 0 and that went through a later update
C33_Witness ==
    /\ \E i \in DOMAIN particles.particles :
          /\ 0 < particles.particles[i].life
          /\ particles.particles[i].life < particles.particles[i].initial_life
    /\ \E j \in Range(particles.free) :
          /\ particles.particles[j].life = 0
          /\ particles.particles[j].initial_life > 0

\* C34: a non-burst emitter drops no spawn request: in every update, while
\* it is enabled, get_available hands out a slot for each of the
\* floor(accumulator) particles asked for, whatever the rate, the lifetime
\* and the calls of enable and disable.
C34_SizedPoolNeverDropsASpawn ==
    ~burst => Len(popped) = requested

\* an emitter of rate 2 and lifetime 2 has spawned two particles out of a
\* free-list that held just these two: the other four slots were in use,
\* and two of them came back in the scan
C34_Witness ==
    /\ ~burst
    /\ particle_number = Whole(2)
    /\ particle_life = 2
    /\ requested = 2
    /\ Len(popped) = 2
    /\ Len(particles.particles) = 6
    /\ Len(particles.free) = 2
    /\ \A i \in Range(particles.free) : particles.particles[i].initial_life > 0

\* C36: an update leaves the accumulator in [0, 1), enabled or not, pool
\* exhausted or not, and spawns at most floor(accumulator before + rate)
\* particles, so a disabled spell banks nothing.
C36_AccumulatorStaysBelowOne ==
    [][particles'.init /\ (nb_accumulator' # nb_accumulator \/ popped' # <<>>) =>
          /\ 0 <= nb_accumulator'
          /\ nb_accumulator' < Whole(1)
          /\ nb_accumulator' = (nb_accumulator + particle_number) % Whole(1)
          /\ Len(popped') <= Floor(nb_accumulator + particle_number)]_vars

\* the first particles of an emitter of rate 1.5 are two, spawned in one
\* update: the accumulator was at 0.5 before it, left there by an update
\* made while the emitter was disabled, and is at 0 after it
C36_Witness ==
    /\ particle_number = 15
    /\ particle_life > 0
    /\ enabled
    /\ ~burst
    /\ requested = 2
    /\ Len(popped) = 2
    /\ nb_accumulator = 0
    /\ \A i \in DOMAIN particles.particles :
          i \notin Range(popped) => particles.particles[i].initial_life = 0

C37_OneDeleteAndDespawnInTheSameTick ==
    [][/\ Occurrences(Delete(EmitterEntity)) <= 1
       /\ ~still_alive => Occurrences(Delete(EmitterEntity)) = 1
       /\ (~still_alive' /\ AfterUpdate /\ ret'.op = "read") => EmitterEntity \notin world'
       /\ (~still_alive /\ AfterCollect) => EmitterEntity \notin world
       /\ EmitterEntity \notin world => UNCHANGED <<emitterVars, world, published>>]_vars

\* the burst emitter has finished, its entity was despawned in that frame
\* and two more frames have gone by
C37_Witness ==
    /\ burst
    /\ total > 0
    /\ particle_life = 1
    /\ ticks = 4
    /\ ~still_alive
    /\ EmitterEntity \notin world
    /\ published = <<Delete(EmitterEntity)>>
    /\ ret.op = "read"

\* C38: the entities a collect takes out of the store are entities its
\* read names in a Delete, index and generation: an entity of the same
\* index and of a later generation than the one a Delete names stays.
C38_OnlyTheNamedEntityIsDespawned ==
    [][ret'.op = "read" =>
          /\ \A x \in world \ world' : Delete(x) \in Range(EventsOf(ret'.events))
          /\ \A x \in world :
                Delete(x) \notin Range(EventsOf(ret'.events)) => x \in world'
          /\ world' \subseteq world]_vars

\* collect has read the Delete of an entity that was gone and whose index
\* a later entity has: the later entity is in the store
C38_Witness ==
    /\ ret.op = "read"
    /\ \E i \in DOMAIN ret.events, x \in world :
          /\ ret.events[i].ev.kind = "Delete"
          /\ ret.events[i].ev.arg.index = x.index
          /\ ret.events[i].ev.arg.generation < x.generation

\* C39 as claimed: after spawn_at_pos of an entity that has a
\* RigidBodyComponent to be synchronized, the body is where the transform
\* is, and so is the transform after the synchronize that follows.
C39_Original ==
    \A e \in world \cap DOMAIN rbc :
        (rbc[e].should_sync /\ rbc[e].handle \in DOMAIN bodies) =>
            bodies[rbc[e].handle].pos = transform[e].translation

====
